---- MODULE Spec2Model ----
(***************************************************************************)
(* The tone curve editor of src/common/database.c (the iop/tonecurve part  *)
(* of the file): the parameter set the GUI handlers edit, the GUI state    *)
(* (channel tab, selected node, last pointer position) and one action per  *)
(* GTK handler.                                                            *)
(*                                                                         *)
(* Coordinates are floats in the source.  Here a coordinate is an integer  *)
(* count of thousandths (One = 1.0f), the step of the scroll handler; the  *)
(* drawing area is Width x Height pixels, so that a pixel is one           *)
(* thousandth and mx, my are exact.                                        *)
(***************************************************************************)
EXTENDS Integers, Sequences, FiniteSets, TLC

\* ---------------------------------------------------------------- constants

\* 1.0f in thousandths
One == 1000
\* widget->allocation.width - 2*inset, widget->allocation.height - 2*inset
Width == 1000
Height == 1000
\* DT_GUI_CURVE_EDITOR_INSET
inset == 1
\* tonecurve_channel_t
ch_L == 0
ch_a == 1
ch_b == 2
ch_max == 3
Channels == 0 .. (ch_max - 1)
\* curve types
CUBIC_SPLINE == 0
CATMULL_ROM == 1
MONOTONE_HERMITE == 2
\* capacity of one channel's node array, the 20 of `nodes < 20`
MAXNODES == 20
Slots == 0 .. (MAXNODES - 1)

\* ------------------------------------------------------------------- bounds

\* dt_dev_add_history_item may be called at most MaxHistory times
MaxHistory == 2
\* <<event->x, event->y>> of the motion events delivered (window pixels): the
\* lower left corner, a place within the hover radius of (0.5, 0.5), and the
\* right edge at mid height
EventPoints == {<<-3, 1006>>, <<478, 524>>, <<1006, 524>>}

\* ------------------------------------------------------------------ helpers

Node(px, py) == [x |-> px, y |-> py]

CLAMP(v, lo, hi) == IF v < lo THEN lo ELSE IF v > hi THEN hi ELSE v

MAX(a, b) == IF a > b THEN a ELSE b

MIN(a, b) == IF a < b THEN a ELSE b

\* a node array: the given nodes, the rest of the struct zero-initialised
Curve(pts) == [k \in Slots |-> IF k < Len(pts) THEN pts[k + 1] ELSE Node(0, 0)]

VARIABLES
  tonecurve,              \* p->tonecurve[ch][k]: {x, y}
  tonecurve_nodes,        \* p->tonecurve_nodes[ch]
  tonecurve_type,         \* p->tonecurve_type[ch]
  tonecurve_autoscale_ab, \* p->tonecurve_autoscale_ab
  channel,                \* c->channel
  selected,               \* c->selected
  mouse_x,                \* c->mouse_x
  mouse_y,                \* c->mouse_y
  history,                \* number of dt_dev_add_history_item calls so far
  ignored,                \* the handler whose autoscale guard turned the last event away, or "none"
  piece_data,             \* piece->data: table[ch], unbounded_coeffs, autoscale_ab
  buf_i,                  \* the input region i of process, a flat array of floats
  buf_o,                  \* the output region o of process, a flat array of floats
  omp,                    \* the row workers of process: rows left, column, and the accesses made
  pipe,                   \* the life of a pipeline piece: the call in progress, the curve objects
  opencl,                 \* process_cl: position, device buffers, err and return value
  legacy,                 \* legacy_params: the two buffers, the two versions, the return value
  database                \* dt_database_init to dt_database_destroy: files, configuration, connection

params == <<tonecurve, tonecurve_nodes, tonecurve_type, tonecurve_autoscale_ab>>
gui == <<channel, selected, mouse_x, mouse_y>>
editor == <<tonecurve, tonecurve_nodes, tonecurve_type, tonecurve_autoscale_ab,
            channel, selected, mouse_x, mouse_y, history, ignored>>
pixelpipe == <<piece_data, buf_i, buf_o, omp, pipe>>
vars == <<tonecurve, tonecurve_nodes, tonecurve_type, tonecurve_autoscale_ab,
          channel, selected, mouse_x, mouse_y, history, ignored,
          piece_data, buf_i, buf_o, omp, pipe, opencl, legacy, database>>

\* ------------------------------------------------------- parameter sets

\* init(): the defaults, also the factory parameters
default_params ==
  [tonecurve |-> [ch \in Channels |->
                    IF ch = ch_L
                    THEN Curve(<<Node(0, 0), Node(One, One)>>)
                    ELSE Curve(<<Node(0, 0), Node(One \div 2, One \div 2), Node(One, One)>>)],
   tonecurve_nodes |-> [ch \in Channels |-> IF ch = ch_L THEN 2 ELSE 3],
   tonecurve_type |-> [ch \in Channels |-> MONOTONE_HERMITE],
   tonecurve_autoscale_ab |-> 1]

factory_params == default_params

\* the defaults after the user has set "scale chroma" to manual
manual_params == [default_params EXCEPT !.tonecurve_autoscale_ab = 0]

\* a parameter set from the history stack (a preset edited by the user): the
\* L curve is the two-node line, the a curve is full and the b curve is one
\* node below capacity, with a node every 50 thousandths
crowded_params ==
  [tonecurve |-> [ch \in Channels |->
                    IF ch = ch_L
                    THEN default_params.tonecurve[ch_L]
                    ELSE [k \in Slots |-> IF k < MAXNODES - 1 \/ ch = ch_a
                                          THEN Node(50 * k, 50 * k) ELSE Node(0, 0)]],
   tonecurve_nodes |-> [ch \in Channels |->
                          IF ch = ch_L THEN 2
                          ELSE IF ch = ch_a THEN MAXNODES ELSE MAXNODES - 1],
   tonecurve_type |-> [ch \in Channels |-> CUBIC_SPLINE],
   tonecurve_autoscale_ab |-> 0]

\* the parameter sets self->params may hold when the GUI is built
InitParams == {default_params, manual_params, crowded_params}

\* no call of process, process_cl, legacy_params or dt_database_init has been made
NoProcess == piece_data = <<>> /\ buf_i = <<>> /\ buf_o = <<>> /\ omp = <<>> /\ pipe = <<>>
NoProcessCl == opencl = <<>>
NoLegacyParams == legacy = <<>>
NoDatabase == database = <<>>

\* gui_init()
Init ==
  /\ NoProcess /\ NoProcessCl /\ NoLegacyParams /\ NoDatabase
  /\ \E p \in InitParams :
       /\ tonecurve = p.tonecurve
       /\ tonecurve_nodes = p.tonecurve_nodes
       /\ tonecurve_type = p.tonecurve_type
       /\ tonecurve_autoscale_ab = p.tonecurve_autoscale_ab
  /\ channel = ch_L
  /\ selected = -1
  /\ mouse_x = -1
  /\ mouse_y = -1
  /\ history = 0
  /\ ignored = "none"

\* ------------------------------------------------------------------- events

\* GdkEventMotion.state bit of the primary button
GDK_BUTTON1_MASK == 256
\* GdkEventType
GDK_BUTTON_PRESS == 4
GDK_2BUTTON_PRESS == 5
\* GdkScrollDirection
GDK_SCROLL_UP == 0
GDK_SCROLL_DOWN == 1
GDK_SCROLL_LEFT == 2

\* event->state & GDK_BUTTON1_MASK
Button1Held(state) == (state \div GDK_BUTTON1_MASK) % 2 = 1

\* c->mouse_x = CLAMP(event->x - inset, 0, width)
MouseX(ex) == CLAMP(ex - inset, 0, Width)
MouseY(ey) == CLAMP(ey - inset, 0, Height)
\* mx = c->mouse_x/(float)width;  my = 1.0f - c->mouse_y/(float)height
Mx(ex) == (MouseX(ex) * One) \div Width
My(ey) == One - (MouseY(ey) * One) \div Height

\* --------------------------------------------------- dt_dev_add_history_item

\* a handler returning without the history item
AddHistoryItem_Dropped == history < MaxHistory /\ history' = history

AddHistoryItem == history < MaxHistory /\ history' = history + 1

\* ------------------------------------------------------ pieces of the handlers

\* the guard with the channel test inverted
AutoscaleLocked_Luminance(autoscale_ab, ch) == autoscale_ab # 0 /\ ch = ch_L

\* the guard left out
AutoscaleLocked_Never(autoscale_ab, ch) == FALSE

\* if (autoscale_ab && ch != ch_L): the a and b curves are not to be touched
AutoscaleLocked(autoscale_ab, ch) == autoscale_ab # 0 /\ ch # ch_L

\* the order test with strict comparisons: a node dragged exactly onto a
\* neighbour's x is kept
OrderChanged_Strict(tc, sel, nodes, mx) ==
  \/ (sel > 0 /\ tc[sel - 1].x > mx)
  \/ (sel < nodes - 1 /\ tc[sel + 1].x < mx)

\* the order test taking every dragged node for out of order
OrderChanged_Always(tc, sel, nodes, mx) == TRUE

\* the order test of the drag branch, made after the node was written
OrderChanged(tc, sel, nodes, mx) ==
  \/ (sel > 0 /\ tc[sel - 1].x >= mx)
  \/ (sel < nodes - 1 /\ tc[sel + 1].x <= mx)

\* the delete allowed one node too low
MayDelete_AtTwo(nodes) == nodes > 1

\* the drag branch deletes only while more than two nodes are left
MayDelete(nodes) == nodes > 2

\* for(k = selected; k < nodes-1; k++) tonecurve[k] = tonecurve[k+1]
DeleteVertex(tc, sel, nodes) ==
  [k \in Slots |-> IF k >= sel /\ k < nodes - 1 THEN tc[k + 1] ELSE tc[k]]

\* the insert branch without the test of the selection
MayInsert_AnySelection(nodes, sel) == nodes < MAXNODES

\* the insert branch with the capacity test off by one
MayInsert_AtCapacity(nodes, sel) == nodes <= MAXNODES /\ sel >= -1

\* else if(nodes < 20 && c->selected >= -1)
MayInsert(nodes, sel) == nodes < MAXNODES /\ sel >= -1

\* the search of the insert branch: index 0, or the first k >= 1 whose x is
\* above mx, or nodes
RECURSIVE InsertScan(_, _, _, _)
InsertScan(tc, nodes, mx, k) ==
  IF k >= nodes THEN nodes
  ELSE IF tc[k].x > mx THEN k
  ELSE InsertScan(tc, nodes, mx, k + 1)

\* the search stopping at a node whose x equals mx
InsertIndex_AtOrAbove(tc, nodes, mx) ==
  IF \E k \in 0 .. (nodes - 1) : tc[k].x >= mx
  THEN CHOOSE k \in 0 .. (nodes - 1) :
         tc[k].x >= mx /\ \A j \in 0 .. (k - 1) : tc[j].x < mx
  ELSE nodes

InsertIndex(tc, nodes, mx) ==
  IF tc[0].x > mx THEN 0 ELSE InsertScan(tc, nodes, mx, 1)

\* for(i = nodes; i > selected; i--) tonecurve[i] = tonecurve[i-1]; then the
\* new node is written at selected
InsertVertex(tc, pos, nodes, mx, my) ==
  [i \in Slots |-> IF i = pos THEN Node(mx, my)
                   ELSE IF i > pos /\ i <= nodes THEN tc[i - 1]
                   ELSE tc[i]]

\* float min = .04f; min *= min
HoverMin == ((4 * One) \div 100) * ((4 * One) \div 100)

Dist(n, mx, my) == (my - n.y) * (my - n.y) + (mx - n.x) * (mx - n.x)

\* the loop without the update of min: the first node within the radius wins
Nearest_FirstWithin(tc, nodes, mx, my) ==
  IF \E k \in 0 .. (nodes - 1) : Dist(tc[k], mx, my) < HoverMin
  THEN CHOOSE k \in 0 .. (nodes - 1) :
         /\ Dist(tc[k], mx, my) < HoverMin
         /\ \A j \in 0 .. (k - 1) : Dist(tc[j], mx, my) >= HoverMin
  ELSE -1

\* the hover branch: float min = .04f squared, nearest = -1, then the loop over
\* k with its running min and nearest; the result is what c->selected is set to
Nearest(tc, nodes, mx, my) ==
  LET RECURSIVE NearestFrom(_, _, _)
      NearestFrom(k, min, nearest) ==
        IF k >= nodes THEN nearest
        ELSE LET dist == Dist(tc[k], mx, my) IN
             IF dist < min
             THEN NearestFrom(k + 1, dist, k)
             ELSE NearestFrom(k + 1, min, nearest)
  IN NearestFrom(0, HoverMin, -1)

\* the copy loop stopping one node early
ResetCurve_ShortCopy(tc, d_tc, d_nodes) ==
  [k \in Slots |-> IF k < d_nodes - 1 THEN d_tc[k] ELSE tc[k]]

\* for(k = 0; k < d->tonecurve_nodes[ch]; k++) p->tonecurve[ch][k] = d->tonecurve[ch][k]
ResetCurve(tc, d_tc, d_nodes) ==
  [k \in Slots |-> IF k < d_nodes THEN d_tc[k] ELSE tc[k]]

\* ----------------------------------------------------------------- handlers

\* dt_iop_tonecurve_motion_notify
MotionNotify(ex, ey, state) ==
  LET ch == channel
      nodes == tonecurve_nodes[ch]
      tc == tonecurve[ch]
      mx == Mx(ex)
      my == My(ey)
      moved == [tc EXCEPT ![selected] = Node(mx, my)]
      pos == InsertIndex(tc, nodes, mx)
  IN
  /\ UNCHANGED <<pixelpipe, opencl, legacy, database>>
  /\ ignored' = IF AutoscaleLocked(tonecurve_autoscale_ab, ch) THEN "motion_notify" ELSE "none"
  /\ IF AutoscaleLocked(tonecurve_autoscale_ab, ch)
     THEN UNCHANGED <<params, gui, history>>
     ELSE
       /\ mouse_x' = MouseX(ex)
       /\ mouse_y' = MouseY(ey)
       /\ UNCHANGED <<tonecurve_type, tonecurve_autoscale_ab, channel>>
       /\ IF Button1Held(state)
          THEN
            IF selected >= 0
            THEN
              /\ IF MayDelete(nodes) /\ OrderChanged(moved, selected, nodes, mx)
                 THEN /\ tonecurve' = [tonecurve EXCEPT ![ch] = DeleteVertex(moved, selected, nodes)]
                      /\ selected' = -2
                      /\ tonecurve_nodes' = [tonecurve_nodes EXCEPT ![ch] = nodes - 1]
                 ELSE /\ tonecurve' = [tonecurve EXCEPT ![ch] = moved]
                      /\ UNCHANGED <<selected, tonecurve_nodes>>
              /\ AddHistoryItem
            ELSE IF MayInsert(nodes, selected)
            THEN
              /\ selected' = pos
              /\ tonecurve' = [tonecurve EXCEPT ![ch] = InsertVertex(tc, pos, nodes, mx, my)]
              /\ tonecurve_nodes' = [tonecurve_nodes EXCEPT ![ch] = nodes + 1]
              /\ AddHistoryItem
            ELSE UNCHANGED <<tonecurve, tonecurve_nodes, selected, history>>
          ELSE
            /\ UNCHANGED <<tonecurve, tonecurve_nodes, history>>
            /\ selected' = Nearest(tc, nodes, mx, my)

\* dt_iop_tonecurve_button_press
ButtonPress(button, type) ==
  LET ch == channel
      d == factory_params
  IN
  /\ UNCHANGED <<pixelpipe, opencl, legacy, database>>
  /\ ignored' = IF button = 1 /\ type = GDK_2BUTTON_PRESS /\ AutoscaleLocked(tonecurve_autoscale_ab, ch)
                THEN "button_press" ELSE "none"
  /\ IF button = 1 /\ type = GDK_2BUTTON_PRESS /\ ~AutoscaleLocked(tonecurve_autoscale_ab, ch)
     THEN
       /\ tonecurve_nodes' = [tonecurve_nodes EXCEPT ![ch] = d.tonecurve_nodes[ch]]
       /\ tonecurve_type' = [tonecurve_type EXCEPT ![ch] = d.tonecurve_type[ch]]
       /\ tonecurve' = [tonecurve EXCEPT ![ch] =
                          ResetCurve(tonecurve[ch], d.tonecurve[ch], d.tonecurve_nodes[ch])]
       /\ selected' = -2
       /\ AddHistoryItem
       /\ UNCHANGED <<tonecurve_autoscale_ab, channel, mouse_x, mouse_y>>
     ELSE UNCHANGED <<params, gui, history>>

\* scrolled
Scrolled(direction) ==
  LET ch == channel
      tc == tonecurve[ch]
  IN
  /\ UNCHANGED <<pixelpipe, opencl, legacy, database>>
  /\ ignored' = IF AutoscaleLocked(tonecurve_autoscale_ab, ch) THEN "scrolled" ELSE "none"
  /\ IF ~AutoscaleLocked(tonecurve_autoscale_ab, ch) /\ selected >= 0
     THEN
       /\ tonecurve' = [tonecurve EXCEPT ![ch] =
            IF direction = GDK_SCROLL_UP
            THEN [tc EXCEPT ![selected].y = MAX(0, tc[selected].y + 1)]
            ELSE IF direction = GDK_SCROLL_DOWN
            THEN [tc EXCEPT ![selected].y = MIN(One, tc[selected].y - 1)]
            ELSE tc]
       /\ AddHistoryItem
       /\ UNCHANGED <<tonecurve_nodes, tonecurve_type, tonecurve_autoscale_ab, gui>>
     ELSE UNCHANGED <<params, gui, history>>

\* tab_switch
TabSwitch(page_num, reset) ==
  /\ UNCHANGED <<pixelpipe, opencl, legacy, database>>
  /\ ignored' = "none"
  /\ channel' = IF reset # 0 THEN channel ELSE page_num
  /\ UNCHANGED <<params, selected, mouse_x, mouse_y, history>>

\* autoscale_ab_callback: value is dt_bauhaus_combobox_get(g->autoscale_ab)
AutoscaleCallback(value, reset) ==
  /\ UNCHANGED <<pixelpipe, opencl, legacy, database>>
  /\ ignored' = "none"
  /\ IF reset # 0
     THEN UNCHANGED <<params, gui, history>>
     ELSE /\ tonecurve_autoscale_ab' = 1 - value
          /\ AddHistoryItem
          /\ UNCHANGED <<tonecurve, tonecurve_nodes, tonecurve_type, gui>>

\* <<event->button, event->type>>: the double-click and single click of the
\* primary button and a double-click of another button
ButtonEvents == {<<1, GDK_2BUTTON_PRESS>>, <<1, GDK_BUTTON_PRESS>>, <<3, GDK_2BUTTON_PRESS>>}
\* <<page_num, reset>>: each tab, and one switch made while the GUI is being
\* reset, which returns before page_num is read
TabEvents == (Channels \X {0}) \cup {<<ch_a, 1>>}
\* <<combobox value, reset>>: auto (0) and manual (1), and one change made
\* while the GUI is being reset, which returns before the value is read
ComboEvents == {<<0, 0>>, <<1, 0>>, <<1, 1>>}

Next ==
  \/ \E e \in EventPoints, state \in {0, GDK_BUTTON1_MASK} : MotionNotify(e[1], e[2], state)
  \/ \E b \in ButtonEvents : ButtonPress(b[1], b[2])
  \/ \E direction \in {GDK_SCROLL_UP, GDK_SCROLL_DOWN, GDK_SCROLL_LEFT} : Scrolled(direction)
  \/ \E t \in TabEvents : TabSwitch(t[1], t[2])
  \/ \E v \in ComboEvents : AutoscaleCallback(v[1], v[2])

Spec == Init /\ [][Next]_vars

\* ============================================================ pixel transform

\* piece->colors: floats per pixel
colors == 4
\* 0xfffful, the factor of the table index and the last index of a table
TableMax == 65535
\* 0x10000, the number of entries of a table
TableSize == 65536

\* the model's region is roi_width x roi_height pixels, worked on by
\* NumThreads row workers
roi_width == 2
roi_height == 2
NumThreads == 2
Rows == 0 .. (roi_height - 1)
Cols == 0 .. (roi_width - 1)
Threads == 1 .. NumThreads
Locs == 0 .. (roi_height * roi_width * colors - 1)

\* Pixel values and table entries are counts of hundredths (Lab to the unit),
\* which keeps every product within 32 bits.  L_in = in[0]/100.0f is a count
\* of LinOne-ths.
Lab == 100
LinOne == 100 * Lab

\* (int)(n/d): the C conversion truncates toward zero
Trunc(n, d) == IF n >= 0 THEN n \div d ELSE -((-n) \div d)

\* a table is the line offset + gain*k/den over k up to the entry top and
\* flat from there on; init_pipe fills it with den = 0x10000 over all entries
\* (gain 100, offset 0 for L; gain 256, offset -128 for a and b)
Table(g, off) == [gain |-> g, offset |-> off, den |-> TableSize, top |-> TableMax]
TableAt(t, k) == t.offset + Trunc(t.gain * MIN(k, t.top), t.den)

\* dt_iop_eval_exp(coeffs, x): coeffs[1] * (x * coeffs[0]) ^ coeffs[2], with x
\* in LinOne-ths and a whole exponent of 1 or 2
dt_iop_eval_exp(coeffs, x) ==
  LET r == x * coeffs[1]
  IN Trunc(coeffs[2] * (IF coeffs[3] = 1 THEN r ELSE Trunc(r * r, LinOne)), LinOne)

\* const float xm = 1.0f/d->unbounded_coeffs[0], in LinOne-ths
Xm(d) == LinOne \div d.unbounded_coeffs[1]

\* the index as converted, without the CLAMP
TableIndex_Unclamped(n, den) == Trunc(n * TableMax, den)

\* CLAMP((int)(v*0xfffful), 0, 0xffff) for v = n/den
TableIndex(n, den) == CLAMP(Trunc(n * TableMax, den), 0, TableMax)

\* the first entry of the table in place of the one at the threshold
low_approximation_First(d) == TableAt(d.table[ch_L], 0)

\* d->table[0][(int)(0.01f * 0xfffful)]
low_approximation(d) == TableAt(d.table[ch_L], Trunc(TableMax, 100))

\* const float L_in = in[0]/100.0f, in LinOne-ths
L_in(in0) == Trunc(in0 * LinOne, 100 * Lab)

\* the luminance branch taken at the end of the table as well
LuminanceOut_AtXm(d, lin) ==
  IF lin <= Xm(d)
  THEN TableAt(d.table[ch_L], TableIndex(lin, LinOne))
  ELSE dt_iop_eval_exp(d.unbounded_coeffs, lin)

\* out[0] = (L_in < xm) ? d->table[ch_L][CLAMP(...)] : dt_iop_eval_exp(...)
LuminanceOut(d, lin) ==
  IF lin < Xm(d)
  THEN TableAt(d.table[ch_L], TableIndex(lin, LinOne))
  ELSE dt_iop_eval_exp(d.unbounded_coeffs, lin)

\* both chroma channels looked up in the table of a
ChromaOut_TableOfA(d, ch, v) ==
  TableAt(d.table[ch_a], TableIndex(v + 128 * Lab, 256 * Lab))

\* a_in = (in[1] + 128.0f) / 256.0f; out[1] = d->table[ch_a][CLAMP(...)], and
\* the same for b
ChromaOut(d, ch, v) ==
  TableAt(d.table[ch], TableIndex(v + 128 * Lab, 256 * Lab))

\* the threshold test at a tenth of full scale
AboveThreshold_Tenth(lin) == lin > LinOne \div 10

\* else if(L_in > 0.01f)
AboveThreshold(lin) == lin > LinOne \div 100

\* the body of the loop over j: the four floats written for the pixel px
ProcessPixel(d, px) ==
  LET lin == L_in(px[1])
      out0 == LuminanceOut(d, lin)
      low == low_approximation(d)
  IN IF d.autoscale_ab = 0
     THEN <<out0, ChromaOut(d, ch_a, px[2]), ChromaOut(d, ch_b, px[3]), px[4]>>
     ELSE IF AboveThreshold(lin)
     THEN <<out0, Trunc(px[2] * out0, px[1]), Trunc(px[3] * out0, px[1]), px[4]>>
     ELSE <<Trunc(px[1] * low, Lab), Trunc(px[2] * low, Lab),
            Trunc(px[3] * low, Lab), px[4]>>

\* the table reads made for the pixel px, as <<channel, index>>: the
\* low_approximation entry read for its row, the luminance entry when L_in
\* is below xm, and the a and b entries when autoscale is off
TableReads(d, px) ==
  LET lin == L_in(px[1])
  IN {<<ch_L, Trunc(TableMax, 100)>>}
     \cup (IF lin < Xm(d) THEN {<<ch_L, TableIndex(lin, LinOne)>>} ELSE {})
     \cup (IF d.autoscale_ab = 0
           THEN {<<ch_a, TableIndex(px[2] + 128 * Lab, 256 * Lab)>>,
                 <<ch_b, TableIndex(px[3] + 128 * Lab, 256 * Lab)>>}
           ELSE {})

\* the row pointer without the channel count
RowOffset_NoStride(k) == k * roi_width

\* in = ((float *)i) + k*ch*roi_out->width, and the same for out
RowOffset(k) == k * colors * roi_width

\* the pixel step as if a pixel had three floats
PixelOffset_Packed(j) == j * (colors - 1)

\* j++, in+=ch, out+=ch
PixelOffset(j) == j * colors

\* in[0..3] at the offset off
LoadPixel(buf, off) == <<buf[off], buf[off + 1], buf[off + 2], buf[off + 3]>>

\* the store leaving out[3] as it was
StorePixel_NoAlpha(buf, off, px) ==
  [l \in DOMAIN buf |-> IF l >= off /\ l < off + colors - 1 THEN px[l - off + 1] ELSE buf[l]]

\* out[0..3] = px at the offset off
StorePixel(buf, off, px) ==
  [l \in DOMAIN buf |-> IF l >= off /\ l < off + colors THEN px[l - off + 1] ELSE buf[l]]

\* ---------------------------------------------------- the data process works on

\* dt_iop_estimate_exp(x, y, 4, coeffs) for a fit whose last point is
\* (xm, ym) and whose exponent is g: coeffs = {1/xm, ym, g}
dt_iop_estimate_exp(xm, ym, g) == <<LinOne \div xm, ym, g>>

identity_L == Table(100 * Lab, 0)
identity_ab == Table(256 * Lab, -128 * Lab)

\* piece->data after init_pipe and commit_params of straight-line curves:
\* the identity; an L line ending at (1, 0.5) with an a line from 0.25 to
\* 0.75; an L line whose last node is at x = 0.5.  xmax records the xm that
\* commit_params fitted the coefficients from.
pipe_identity(autoscale_ab) ==
  [table |-> [ch \in Channels |-> IF ch = ch_L THEN identity_L ELSE identity_ab],
   xmax |-> LinOne,
   unbounded_coeffs |-> dt_iop_estimate_exp(LinOne, 100 * Lab, 1),
   autoscale_ab |-> autoscale_ab]

pipe_compressed(autoscale_ab) ==
  [table |-> [ch \in Channels |-> IF ch = ch_L THEN Table(50 * Lab, 0)
                                  ELSE IF ch = ch_a THEN Table(128 * Lab, -64 * Lab)
                                  ELSE identity_ab],
   xmax |-> LinOne,
   unbounded_coeffs |-> dt_iop_estimate_exp(LinOne, 50 * Lab, 1),
   autoscale_ab |-> autoscale_ab]

pipe_short(autoscale_ab) ==
  [table |-> [ch \in Channels |-> IF ch = ch_L THEN Table(200 * Lab, 0) ELSE identity_ab],
   xmax |-> LinOne \div 2,
   unbounded_coeffs |-> dt_iop_estimate_exp(LinOne \div 2, 100 * Lab, 2),
   autoscale_ab |-> autoscale_ab]

PieceData ==
  UNION {{pipe_identity(a), pipe_compressed(a), pipe_short(a)} : a \in {0, 1}}

\* the pixels <<L, a, b, alpha>> of the input regions: mid grey; L exactly at
\* the 0.01 threshold; L zero; L negative with chroma at the ends of its range;
\* L at 100, the end of the identity table; L beyond the table with chroma
\* outside its range; L just above the threshold
TestPixels ==
  << <<50 * Lab, 10 * Lab, -20 * Lab, Lab>>,
     <<Lab, 30 * Lab, 40 * Lab, Lab \div 2>>,
     <<0, 5 * Lab, 5 * Lab, 0>>,
     <<-2 * Lab, -128 * Lab, 127 * Lab, Lab>>,
     <<100 * Lab, 0, 64 * Lab, Lab \div 4>>,
     <<120 * Lab, -200 * Lab, 150 * Lab, Lab>>,
     <<2 * Lab, 8 * Lab, -8 * Lab, Lab>> >>

\* the region whose pixels are TestPixels from the seed-th on, row by row
Region(seed) ==
  [l \in Locs |-> TestPixels[((seed + l \div colors) % Len(TestPixels)) + 1][(l % colors) + 1]]

\* the rows given to worker w, in increasing order
RowsOf(assign, w) ==
  SelectSeq([n \in 1 .. roi_height |-> n - 1], LAMBDA k : assign[k] = w)

\* the editor is not in use while the pixelpipe or a migration runs
EditorAtRest ==
  /\ tonecurve = default_params.tonecurve
  /\ tonecurve_nodes = default_params.tonecurve_nodes
  /\ tonecurve_type = default_params.tonecurve_type
  /\ tonecurve_autoscale_ab = default_params.tonecurve_autoscale_ab
  /\ channel = ch_L /\ selected = -1 /\ mouse_x = -1 /\ mouse_y = -1
  /\ history = 0 /\ ignored = "none"

\* process() has been entered: the parallel loop has handed each row to a
\* worker, nothing is read or written yet; the output buffer holds whatever
\* it held before
ProcessInit ==
  /\ EditorAtRest /\ NoProcessCl /\ NoLegacyParams /\ NoDatabase
  /\ pipe = <<>>
  /\ piece_data \in PieceData
  /\ \E seed \in 0 .. (Len(TestPixels) - 1) : buf_i = Region(seed)
  /\ \E fill \in {0, 7 * Lab} : buf_o = [l \in Locs |-> fill]
  /\ \E assign \in [Rows -> Threads] :
       omp = [rows |-> [w \in Threads |-> RowsOf(assign, w)],
              col |-> [w \in Threads |-> 0],
              writes |-> [l \in Locs |-> <<>>],
              reads |-> [l \in Locs |-> {}]]

\* one iteration of the loop over j by worker w, in its first row left
ProcessStep(w) ==
  LET k == Head(omp.rows[w])
      j == omp.col[w]
      off == RowOffset(k) + PixelOffset(j)
      px == LoadPixel(buf_i, off)
      out == ProcessPixel(piece_data, px)
      last == j + 1 >= roi_width
      \* out[0] is read back where the chroma is scaled by out[0]/in[0]
      readback == piece_data.autoscale_ab # 0 /\ AboveThreshold(L_in(px[1]))
  IN
  /\ omp.rows[w] # <<>>
  /\ buf_o' = StorePixel(buf_o, off, out)
  /\ omp' = [omp EXCEPT
       !.rows[w] = IF last THEN Tail(@) ELSE @,
       !.col[w] = IF last THEN 0 ELSE j + 1,
       !.writes = [l \in Locs |-> IF l >= off /\ l < off + colors
                                  THEN Append(omp.writes[l], w) ELSE omp.writes[l]],
       !.reads = [l \in Locs |-> IF readback /\ l = off
                                 THEN omp.reads[l] \cup {w} ELSE omp.reads[l]]]
  /\ UNCHANGED <<piece_data, buf_i, pipe, editor, opencl, legacy, database>>

ProcessNext == \E w \in Threads : ProcessStep(w)

SpecProcess == ProcessInit /\ [][ProcessNext]_vars

\* every worker has finished its rows
ProcessDone == \A w \in Threads : omp.rows[w] = <<>>

\* ============================================================ pipeline piece

\* the number of commit_params calls in the life of a piece
MaxCommits == 2

\* parameter sets whose curves are straight lines: the L line ending at
\* (0.5, 1) with a two-node a line and cubic splines throughout; the L line
\* lifted to start at (0, 0.2), with the types and node counts of the defaults
short_params ==
  [tonecurve |-> [ch \in Channels |->
                    IF ch = ch_L THEN Curve(<<Node(0, 0), Node(One \div 2, One)>>)
                    ELSE IF ch = ch_a THEN Curve(<<Node(0, One \div 4), Node(One, (3 * One) \div 4)>>)
                    ELSE default_params.tonecurve[ch_b]],
   tonecurve_nodes |-> [ch \in Channels |-> IF ch = ch_b THEN 3 ELSE 2],
   tonecurve_type |-> [ch \in Channels |-> CUBIC_SPLINE],
   tonecurve_autoscale_ab |-> 0]

lifted_params ==
  [default_params EXCEPT !.tonecurve[ch_L] = Curve(<<Node(0, One \div 5), Node(One, One)>>)]

\* the parameter sets the pixelpipe commits
CommitParamSets == {default_params, manual_params, short_params, lifted_params}

\* the first n points of a parameter curve, as the loops over k pass them on
Points(p, ch) == [k \in 1 .. p.tonecurve_nodes[ch] |-> p.tonecurve[ch][k - 1]]

\* dt_draw_curve_new(0.0, 1.0, type): a curve object without points
dt_draw_curve_new(type) == [type |-> type, points |-> <<>>, live |-> TRUE]

\* dt_draw_curve_add_point(c, x, y)
dt_draw_curve_add_point(c, pt) == [c EXCEPT !.points = Append(@, pt)]

\* dt_draw_curve_set_point(c, k, x, y): replaces point k of the curve
dt_draw_curve_set_point(c, k, pt) ==
  IF k <= Len(c.points) THEN [c EXCEPT !.points[k] = pt] ELSE c

\* dt_draw_curve_destroy(c)
dt_draw_curve_destroy(c) == [c EXCEPT !.live = FALSE]

\* the curve c after add_point, or set_point, of each of the points pts
RECURSIVE AddPoints(_, _)
AddPoints(c, pts) ==
  IF pts = <<>> THEN c ELSE AddPoints(dt_draw_curve_add_point(c, Head(pts)), Tail(pts))

RECURSIVE SetPoints(_, _, _)
SetPoints(c, pts, k) ==
  IF k > Len(pts) THEN c ELSE SetPoints(dt_draw_curve_set_point(c, k, pts[k]), pts, k + 1)

\* dt_draw_curve_calc_values(c, 0.0f, 1.0f, 0x10000, NULL, table) for a curve
\* whose points lie on a line from x = 0: entry k is the line at k/0xffff up
\* to the last point's x and the last point's y from there on
dt_draw_curve_calc_values(c) ==
  LET first == c.points[1]
      last == c.points[Len(c.points)]
      top == Trunc(last.x * TableMax, One)
  IN [gain |-> Trunc((last.y - first.y) * Lab, One),
      offset |-> Trunc(first.y * Lab, One),
      den |-> top, top |-> top]

\* the chroma scaling applied with the factor of L
ScaleTable_AllLuminance(ch, t) == [t EXCEPT !.gain = @ * 100, !.offset = @ * 100]

\* table[ch_L][k] *= 100.0f;  table[ch_a][k] = table[ch_a][k]*256.0f - 128.0f,
\* and the same for b
ScaleTable(ch, t) ==
  IF ch = ch_L
  THEN [t EXCEPT !.gain = @ * 100, !.offset = @ * 100]
  ELSE [t EXCEPT !.gain = @ * 256, !.offset = @ * 256 - 128 * Lab]

\* y[n] = d->table[ch_L][CLAMP((int)(x[n]*0x10000ul), 0, 0xffff)] for
\* x[n] = tenths/10 * xm
FitSample(t, xm, tenths) ==
  TableAt(t, CLAMP(Trunc(tenths * xm * TableSize, 10 * One), 0, TableMax))

\* the exponent of the fit: 1 when the samples are proportional to their x,
\* 2 standing for every other exponent
FitExponent(y7, y10) == IF 10 * y7 - 7 * y10 \in -10 .. 10 THEN 1 ELSE 2

\* xm, x[4], y[4] and dt_iop_estimate_exp(x, y, 4, d->unbounded_coeffs)
FitCoeffs(t, xm) ==
  dt_iop_estimate_exp(Trunc(xm * LinOne, One), FitSample(t, xm, 10),
                      FitExponent(FitSample(t, xm, 7), FitSample(t, xm, 10)))

\* the x of the last L node of p
LastX(p) == p.tonecurve[ch_L][p.tonecurve_nodes[ch_L] - 1].x

\* what malloc may have left in unbounded_coeffs
StaleCoeffs == {<<1, 100 * Lab, 1>>, <<2, 0, 2>>}

\* the members of dt_iop_tonecurve_data_t that init_pipe assigns after malloc
InitPipeWrites == {"autoscale_ab", "curve", "curve_nodes", "curve_type", "table"}

\* the members of dt_iop_tonecurve_data_t that process reads: unbounded_coeffs
\* for xm before the loop, the tables and the autoscale flag in the loop
ProcessReads == {"unbounded_coeffs", "table", "autoscale_ab"}

\* init_pipe(): piece->data is allocated, autoscale_ab is 1, each channel gets
\* a new curve with the default type and the default points, the tables are
\* the identities; unbounded_coeffs is not assigned
InitPipe ==
  /\ pipe.pc = <<"none", 0>>
  /\ \E stale \in StaleCoeffs :
       piece_data' =
         [curve |-> [ch \in Channels |-> ch + 1],
          curve_nodes |-> default_params.tonecurve_nodes,
          curve_type |-> default_params.tonecurve_type,
          table |-> [ch \in Channels |-> IF ch = ch_L THEN identity_L ELSE identity_ab],
          unbounded_coeffs |-> stale,
          autoscale_ab |-> 1]
  /\ pipe' = [pipe EXCEPT
       !.pc = <<"idle", 0>>,
       !.written = InitPipeWrites,
       !.heap = [n \in 1 .. ch_max |->
                   AddPoints(dt_draw_curve_new(default_params.tonecurve_type[n - 1]),
                             Points(default_params, n - 1))]]
  /\ UNCHANGED <<buf_i, buf_o, omp, editor, opencl, legacy, database>>

\* commit_params(self, p, pipe, piece) is entered; what the last transform
\* read and wrote is no longer kept
CommitCall(p) ==
  /\ pipe.pc = <<"idle", 0>>
  /\ pipe.commits < MaxCommits
  /\ pipe' = [pipe EXCEPT !.pc = <<"curve", ch_L>>, !.p = p, !.commits = @ + 1,
                          !.px_in = <<>>, !.px_out = <<>>, !.seen = <<>>]
  /\ UNCHANGED <<piece_data, buf_i, buf_o, omp, editor, opencl, legacy, database>>

\* the test for a change of type or node count
CurveChanged_Never(d, p, ch) == FALSE

\* if(d->curve_type[ch] != p->tonecurve_type[ch] ||
\*    d->curve_nodes[ch] != p->tonecurve_nodes[ch])
CurveChanged(d, p, ch) ==
  d.curve_type[ch] # p.tonecurve_type[ch] \/ d.curve_nodes[ch] # p.tonecurve_nodes[ch]

\* the new curve is allocated and the old one is never destroyed
ReplaceCurve_Leak(heap, id, c) == Append(heap, c)

\* dt_draw_curve_destroy(d->curve[ch]); d->curve[ch] = dt_draw_curve_new(...):
\* the heap with the object id destroyed and the new curve c allocated
ReplaceCurve(heap, id, c) ==
  Append([heap EXCEPT ![id] = dt_draw_curve_destroy(@)], c)

\* the loop body for channel ch up to the points: either the curve is
\* destroyed and a new one of p's type receives p's points, or the points of
\* the curve are set
CommitCurve(ch) ==
  LET p == pipe.p
      id == piece_data.curve[ch]
      fresh == Len(pipe.heap) + 1
  IN
  /\ pipe.pc = <<"curve", ch>>
  /\ IF CurveChanged(piece_data, p, ch)
     THEN /\ pipe' = [pipe EXCEPT
               !.heap = ReplaceCurve(@, id,
                               AddPoints(dt_draw_curve_new(p.tonecurve_type[ch]), Points(p, ch))),
               !.destroyed = Append(@, id),
               !.stale_use = @ \/ ~pipe.heap[id].live,
               !.pc = <<"calc", ch>>]
          /\ piece_data' = [piece_data EXCEPT
               !.curve[ch] = fresh,
               !.curve_nodes[ch] = p.tonecurve_nodes[ch],
               !.curve_type[ch] = p.tonecurve_type[ch]]
     ELSE /\ pipe' = [pipe EXCEPT
               !.heap[id] = SetPoints(@, Points(p, ch), 1),
               !.stale_use = @ \/ ~pipe.heap[id].live,
               !.pc = <<"calc", ch>>]
          /\ UNCHANGED piece_data
  /\ UNCHANGED <<buf_i, buf_o, omp, editor, opencl, legacy, database>>

\* dt_draw_curve_calc_values(d->curve[ch], 0.0f, 1.0f, 0x10000, NULL, d->table[ch])
CommitCalc(ch) ==
  /\ pipe.pc = <<"calc", ch>>
  /\ piece_data' = [piece_data EXCEPT
       !.table[ch] = dt_draw_curve_calc_values(pipe.heap[piece_data.curve[ch]])]
  /\ pipe' = [pipe EXCEPT
       !.stale_use = @ \/ ~pipe.heap[piece_data.curve[ch]].live,
       !.pc = IF ch + 1 < ch_max THEN <<"curve", ch + 1>> ELSE <<"scale", ch_L>>]
  /\ UNCHANGED <<buf_i, buf_o, omp, editor, opencl, legacy, database>>

\* the three loops over k that bring the tables to the ranges of L, a and b
CommitScale(ch) ==
  /\ pipe.pc = <<"scale", ch>>
  /\ piece_data' = [piece_data EXCEPT !.table[ch] = ScaleTable(ch, @)]
  /\ pipe' = [pipe EXCEPT
       !.pc = IF ch + 1 < ch_max THEN <<"scale", ch + 1>> ELSE <<"autoscale", 0>>]
  /\ UNCHANGED <<buf_i, buf_o, omp, editor, opencl, legacy, database>>

\* d->autoscale_ab = p->tonecurve_autoscale_ab;
CommitAutoscale ==
  /\ pipe.pc = <<"autoscale", 0>>
  /\ piece_data' = [piece_data EXCEPT !.autoscale_ab = pipe.p.tonecurve_autoscale_ab]
  /\ pipe' = [pipe EXCEPT !.pc = <<"fit", 0>>]
  /\ UNCHANGED <<buf_i, buf_o, omp, editor, opencl, legacy, database>>

\* the extrapolation is fit and commit_params returns
CommitFit ==
  /\ pipe.pc = <<"fit", 0>>
  /\ piece_data' = [piece_data EXCEPT
       !.unbounded_coeffs = FitCoeffs(piece_data.table[ch_L], LastX(pipe.p))]
  /\ pipe' = [pipe EXCEPT !.pc = <<"idle", 0>>, !.written = @ \cup {"unbounded_coeffs"}]
  /\ UNCHANGED <<buf_i, buf_o, omp, editor, opencl, legacy, database>>

\* the pixels the piece is asked to transform
PipePixels == {<<50 * Lab, 0, 0, Lab>>, <<80 * Lab, 10 * Lab, -20 * Lab, Lab \div 2>>}

\* what process reads of the piece: the L table (line 374) and the
\* coefficients (lines 359 and 375)
Observed(d) == [table |-> d.table[ch_L], unbounded_coeffs |-> d.unbounded_coeffs]

\* process() on one pixel, between two commits
TransformPixel(px) ==
  /\ pipe.pc = <<"idle", 0>>
  /\ pipe.commits > 0
  /\ pipe' = [pipe EXCEPT !.px_in = px, !.px_out = ProcessPixel(piece_data, px),
                          !.seen = Observed(piece_data)]
  /\ UNCHANGED <<piece_data, buf_i, buf_o, omp, editor, opencl, legacy, database>>

\* cleanup_pipe(): the three curves are destroyed and piece->data is freed
CleanupPipe ==
  /\ pipe.pc = <<"idle", 0>>
  /\ pipe' = [pipe EXCEPT
       !.heap = [n \in DOMAIN pipe.heap |->
                   IF \E ch \in Channels : piece_data.curve[ch] = n
                   THEN dt_draw_curve_destroy(pipe.heap[n]) ELSE pipe.heap[n]],
       !.destroyed = @ \o [n \in 1 .. ch_max |-> piece_data.curve[n - 1]],
       !.stale_use = @ \/ \E ch \in Channels : ~pipe.heap[piece_data.curve[ch]].live,
       !.pc = <<"cleaned", 0>>]
  /\ UNCHANGED <<piece_data, buf_i, buf_o, omp, editor, opencl, legacy, database>>

\* the piece before init_pipe
PipeInit ==
  /\ EditorAtRest /\ NoProcessCl /\ NoLegacyParams /\ NoDatabase
  /\ piece_data = <<>> /\ buf_i = <<>> /\ buf_o = <<>> /\ omp = <<>>
  /\ pipe = [pc |-> <<"none", 0>>, p |-> <<>>, commits |-> 0, heap |-> <<>>,
             destroyed |-> <<>>, stale_use |-> FALSE, px_in |-> <<>>, px_out |-> <<>>,
             seen |-> <<>>, written |-> {}]

PipeNext ==
  \/ InitPipe
  \/ \E p \in CommitParamSets : CommitCall(p)
  \/ \E ch \in Channels : CommitCurve(ch)
  \/ \E ch \in Channels : CommitCalc(ch)
  \/ \E ch \in Channels : CommitScale(ch)
  \/ CommitAutoscale
  \/ CommitFit
  \/ \E px \in PipePixels : TransformPixel(px)
  \/ CleanupPipe

SpecPipe == PipeInit /\ [][PipeNext]_vars

\* process() on one pixel on another thread while a later commit_params is
\* under way: neither function takes a lock, and commit_params writes the
\* tables and the coefficients of the piece in place
RacingTransform(px) ==
  /\ pipe.pc[1] \in {"curve", "calc", "scale", "autoscale", "fit"}
  /\ pipe.commits > 1
  /\ pipe' = [pipe EXCEPT !.px_in = px, !.px_out = ProcessPixel(piece_data, px),
                          !.seen = Observed(piece_data)]
  /\ UNCHANGED <<piece_data, buf_i, buf_o, omp, editor, opencl, legacy, database>>

RaceNext ==
  \/ PipeNext
  \/ \E px \in PipePixels : RacingTransform(px)

SpecRace == PipeInit /\ [][RaceNext]_vars

\* process() on one pixel after init_pipe and before the first commit_params
EarlyTransform(px) ==
  /\ pipe.pc = <<"idle", 0>>
  /\ pipe.commits = 0
  /\ pipe' = [pipe EXCEPT !.px_in = px, !.px_out = ProcessPixel(piece_data, px),
                          !.seen = Observed(piece_data)]
  /\ UNCHANGED <<piece_data, buf_i, buf_o, omp, editor, opencl, legacy, database>>

EarlyNext ==
  \/ PipeNext
  \/ \E px \in PipePixels : EarlyTransform(px)

SpecEarly == PipeInit /\ [][EarlyNext]_vars

\* ============================================================== device kernel

\* the device buffers of process_cl in the order they are acquired, and the
\* handle each acquisition yields when it succeeds
Buffers == <<"dev_L", "dev_a", "dev_b", "dev_coeffs">>
NULL == 0
Stale == 9
HandleOf(b) == CHOOSE n \in 1 .. Len(Buffers) : Buffers[n] = b
Handles == {NULL, Stale} \cup (1 .. Len(Buffers))

CL_SUCCESS == 0
CL_FAILURE == -5
FALSE_ == 0
TRUE_ == 1
NoReturn == -1

\* the test after the three table transfers looking at dev_L alone
TablesMissing_OnlyL(dev) == dev["dev_L"] = NULL

\* if (dev_L == NULL || dev_a == NULL || dev_b == NULL) goto error;
TablesMissing(dev) ==
  dev["dev_L"] = NULL \/ dev["dev_a"] = NULL \/ dev["dev_b"] = NULL

\* the error path releasing without looking at the handle
ErrorReleases_Always(h) == TRUE

\* if (dev_X != NULL) dt_opencl_release_mem_object(dev_X);
ErrorReleases(h) == h # NULL

\* process_cl() has been entered: dev_b and dev_coeffs are NULL, err is -999,
\* dev_L and dev_a hold whatever the stack held, autoscale_ab is read from the
\* piece data
ProcessClInit ==
  /\ EditorAtRest /\ NoProcess /\ NoLegacyParams /\ NoDatabase
  /\ \E l, a \in {NULL, Stale}, d \in PieceData :
       opencl = [pc |-> <<"copy", 1>>,
                 autoscale_ab |-> d.autoscale_ab,
                 args |-> <<>>,
                 dev |-> [b \in {Buffers[n] : n \in 1 .. Len(Buffers)} |->
                            IF b = "dev_L" THEN l ELSE IF b = "dev_a" THEN a ELSE NULL],
                 err |-> -999,
                 acquired |-> {},
                 failed |-> {},
                 released |-> [h \in Handles |-> 0],
                 dispatched |-> FALSE,
                 ret |-> NoReturn]

\* every step of process_cl leaves the rest alone
ClFrame == UNCHANGED <<editor, pixelpipe, legacy, database>>

\* dev_X = dt_opencl_copy_host_to_device(...) for the n-th table: a handle, or
\* NULL when the transfer fails
ClCopyTable(n, ok) ==
  /\ opencl.pc = <<"copy", n>>
  /\ n <= 3
  /\ opencl' = [opencl EXCEPT
       !.dev[Buffers[n]] = IF ok THEN n ELSE NULL,
       !.acquired = IF ok THEN @ \cup {n} ELSE @,
       !.failed = IF ok THEN @ ELSE @ \cup {Buffers[n]},
       !.pc = IF n < 3 THEN <<"copy", n + 1>> ELSE <<"check_tables", 0>>]
  /\ ClFrame

\* if (dev_L == NULL || dev_a == NULL || dev_b == NULL) goto error;
ClCheckTables ==
  /\ opencl.pc = <<"check_tables", 0>>
  /\ opencl' = [opencl EXCEPT
       !.pc = IF TablesMissing(opencl.dev) THEN <<"error", 1>> ELSE <<"copy", 4>>]
  /\ ClFrame

\* dev_coeffs = dt_opencl_copy_host_to_device_constant(...);
\* if (dev_coeffs == NULL) goto error;
ClCopyCoeffs(ok) ==
  /\ opencl.pc = <<"copy", 4>>
  /\ opencl' = [opencl EXCEPT
       !.dev["dev_coeffs"] = IF ok THEN 4 ELSE NULL,
       !.acquired = IF ok THEN @ \cup {4} ELSE @,
       !.failed = IF ok THEN @ ELSE @ \cup {"dev_coeffs"},
       !.pc = IF ok THEN <<"enqueue", 0>> ELSE <<"error", 1>>]
  /\ ClFrame

\* the kernel arguments are set and the kernel is enqueued; a kernel that is
\* enqueued runs and writes dev_out;  if(err != CL_SUCCESS) goto error;
ClEnqueue(err) ==
  /\ opencl.pc = <<"enqueue", 0>>
  /\ opencl' = [opencl EXCEPT
       !.args = <<opencl.dev["dev_L"], opencl.dev["dev_a"], opencl.dev["dev_b"],
                  opencl.autoscale_ab, opencl.dev["dev_coeffs"]>>,
       !.err = err,
       !.dispatched = (err = CL_SUCCESS),
       !.pc = IF err # CL_SUCCESS THEN <<"error", 1>> ELSE <<"release", 1>>]
  /\ ClFrame

\* dt_opencl_release_mem_object(dev_X) of the success path, X the n-th buffer
ClRelease(n) ==
  /\ opencl.pc = <<"release", n>>
  /\ opencl' = [opencl EXCEPT
       !.released[opencl.dev[Buffers[n]]] = @ + 1,
       !.pc = IF n < Len(Buffers) THEN <<"release", n + 1>> ELSE <<"return", TRUE_>>]
  /\ ClFrame

\* if (dev_X != NULL) dt_opencl_release_mem_object(dev_X); of the error path
ClErrorRelease(n) ==
  /\ opencl.pc = <<"error", n>>
  /\ opencl' = [opencl EXCEPT
       !.released[opencl.dev[Buffers[n]]] =
          IF ErrorReleases(opencl.dev[Buffers[n]]) THEN @ + 1 ELSE @,
       !.pc = IF n < Len(Buffers) THEN <<"error", n + 1>> ELSE <<"return", FALSE_>>]
  /\ ClFrame

\* return TRUE; and return FALSE;
ClReturn ==
  /\ opencl.pc[1] = "return"
  /\ opencl' = [opencl EXCEPT !.ret = opencl.pc[2], !.pc = <<"returned", 0>>]
  /\ ClFrame

ProcessClNext ==
  \/ \E n \in 1 .. 3, ok \in BOOLEAN : ClCopyTable(n, ok)
  \/ ClCheckTables
  \/ \E ok \in BOOLEAN : ClCopyCoeffs(ok)
  \/ \E err \in {CL_SUCCESS, CL_FAILURE} : ClEnqueue(err)
  \/ \E n \in 1 .. Len(Buffers) : ClRelease(n)
  \/ \E n \in 1 .. Len(Buffers) : ClErrorRelease(n)
  \/ ClReturn

SpecCL == ProcessClInit /\ [][ProcessClNext]_vars

\* process_cl has returned
ClReturned == opencl # <<>> /\ opencl.pc = <<"returned", 0>>

\* ================================================================ two backends

\* the kernel's table read: the input n/den clamped to [0, 1], then the entry
\* at its index
kernel_lookup(t, n, den) == TableAt(t, Trunc(CLAMP(n, 0, den) * TableMax, den))

\* the per-pixel rule of the tonecurve kernel for the arguments process_cl
\* sets: the three tables, autoscale_ab and the coefficients
kernel_tonecurve(table, autoscale_ab, coeffs, px) ==
  LET normalized == Trunc(px[1] * LinOne, 100 * Lab)
      xmax == LinOne \div coeffs[1]
      \* 1. luminance from the table below xmax, from the extrapolation beyond
      L == IF normalized < xmax
           THEN kernel_lookup(table[ch_L], normalized, LinOne)
           ELSE dt_iop_eval_exp(coeffs, normalized)
      at_threshold == kernel_lookup(table[ch_L], LinOne \div 100, LinOne)
  IN IF autoscale_ab = 0
     THEN \* 2. each chroma channel from its own table
          <<L, kernel_lookup(table[ch_a], px[2] + 128 * Lab, 256 * Lab),
               kernel_lookup(table[ch_b], px[3] + 128 * Lab, 256 * Lab), px[4]>>
     ELSE IF normalized <= LinOne \div 100
     THEN \* 3. at or below the threshold all three are scaled by the lookup there
          <<Trunc(px[1] * at_threshold, Lab), Trunc(px[2] * at_threshold, Lab),
            Trunc(px[3] * at_threshold, Lab), px[4]>>
     ELSE \* 3. chroma scaled by out_L / in_L
          <<L, Trunc(px[2] * L, px[1]), Trunc(px[3] * L, px[1]), px[4]>>

\* the pixel a location belongs to, by row and column
RowOf(l) == l \div (colors * roi_width)
ColOf(l) == (l \div colors) % roi_width

\* the same region and piece are given to process and to process_cl
BackendsInit ==
  /\ EditorAtRest /\ NoLegacyParams /\ NoDatabase
  /\ piece_data \in PieceData
  /\ \E seed \in 0 .. (Len(TestPixels) - 1) : buf_i = Region(seed)
  /\ buf_o = <<>> /\ omp = <<>> /\ pipe = <<>>
  /\ opencl = [dev_out |-> <<>>, ret |-> NoReturn]

\* process() from entry to return: the loops over k and j
HostProcess ==
  /\ buf_o = <<>>
  /\ buf_o' = [l \in Locs |->
       ProcessPixel(piece_data,
                    LoadPixel(buf_i, RowOffset(RowOf(l)) + PixelOffset(ColOf(l))))[(l % colors) + 1]]
  /\ UNCHANGED <<piece_data, buf_i, omp, pipe, opencl, editor, legacy, database>>

\* process_cl() from entry to return: either a transfer or the enqueue fails
\* and FALSE is returned, or the kernel runs once per pixel on the tables,
\* the flag and the coefficients of the piece and TRUE is returned
DeviceProcess(ok) ==
  /\ opencl.ret = NoReturn
  /\ opencl' =
       IF ok
       THEN [dev_out |-> [l \in Locs |->
                kernel_tonecurve(piece_data.table, piece_data.autoscale_ab,
                                 piece_data.unbounded_coeffs,
                                 LoadPixel(buf_i, (l \div colors) * colors))[(l % colors) + 1]],
             ret |-> TRUE_]
       ELSE [opencl EXCEPT !.ret = FALSE_]
  /\ UNCHANGED <<piece_data, buf_i, buf_o, omp, pipe, editor, legacy, database>>

BackendsNext ==
  \/ HostProcess
  \/ \E ok \in BOOLEAN : DeviceProcess(ok)

SpecBackends == BackendsInit /\ [][BackendsNext]_vars

\* ========================================================= parameter migration

\* a dt_iop_tonecurve_params_t with its tonecurve_preset field
WithPreset(p, preset) ==
  [tonecurve |-> p.tonecurve,
   tonecurve_nodes |-> p.tonecurve_nodes,
   tonecurve_type |-> p.tonecurve_type,
   tonecurve_autoscale_ab |-> p.tonecurve_autoscale_ab,
   tonecurve_preset |-> preset]

\* the compound literal assigned to *n; the nodes it does not name are zero
legacy_defaults ==
  [tonecurve |-> [ch \in Channels |->
                    IF ch = ch_L
                    THEN Curve(<<Node(0, 0), Node(One, One)>>)
                    ELSE Curve(<<Node(0, 0), Node(One \div 2, One \div 2), Node(One, One)>>)],
   tonecurve_nodes |-> [ch \in Channels |-> IF ch = ch_L THEN 2 ELSE 3],
   tonecurve_type |-> [ch \in Channels |-> MONOTONE_HERMITE],
   tonecurve_autoscale_ab |-> 1,
   tonecurve_preset |-> 0]

\* version 1 parameter sets (dt_iop_tonecurve_1_params_t): the straight line,
\* and a contrast curve saved from preset 2
OldParams ==
  {[tonecurve_x |-> <<0, 200, 400, 600, 800, One>>,
    tonecurve_y |-> <<0, 200, 400, 600, 800, One>>,
    tonecurve_preset |-> 0],
   [tonecurve_x |-> <<0, 80, 400, 600, 920, One>>,
    tonecurve_y |-> <<0, 40, 380, 620, 960, One>>,
    tonecurve_preset |-> 2]}

\* what the buffer new_params points to may hold when legacy_params is called
NewParams ==
  {WithPreset(default_params, 0), WithPreset(manual_params, 1), WithPreset(crowded_params, 5)}

OldVersions == 0 .. 3
NewVersions == 1 .. 4

\* the version test accepting every old version
Supported_AnyToThree(old_version, new_version) == new_version = 3

\* if(old_version == 1 && new_version == 3)
Supported(old_version, new_version) == old_version = 1 /\ new_version = 3

\* the body of the if without the assignment of the spline type
Migrate_NoType(o) ==
  [legacy_defaults EXCEPT
     !.tonecurve[ch_L] = [k \in Slots |->
                            IF k < 6 THEN Node(o.tonecurve_x[k + 1], o.tonecurve_y[k + 1])
                            ELSE @[k]],
     !.tonecurve_nodes[ch_L] = 6,
     !.tonecurve_autoscale_ab = 1,
     !.tonecurve_preset = o.tonecurve_preset]

\* the body of the if: *n after the assignments
Migrate(o) ==
  [legacy_defaults EXCEPT
     !.tonecurve[ch_L] = [k \in Slots |->
                            IF k < 6 THEN Node(o.tonecurve_x[k + 1], o.tonecurve_y[k + 1])
                            ELSE @[k]],
     !.tonecurve_nodes[ch_L] = 6,
     !.tonecurve_type[ch_L] = CUBIC_SPLINE,
     !.tonecurve_autoscale_ab = 1,
     !.tonecurve_preset = o.tonecurve_preset]

\* legacy_params() has been called
LegacyInit ==
  /\ EditorAtRest /\ NoProcess /\ NoProcessCl /\ NoDatabase
  /\ \E ov \in OldVersions, nv \in NewVersions, o \in OldParams, n \in NewParams :
       legacy = [old_version |-> ov, new_version |-> nv,
                 old_params |-> o, new_params |-> n,
                 returned |-> FALSE, ret |-> 0]

\* legacy_params(self, old_params, old_version, new_params, new_version)
LegacyParams ==
  /\ ~legacy.returned
  /\ legacy' =
       IF Supported(legacy.old_version, legacy.new_version)
       THEN [legacy EXCEPT !.new_params = Migrate(legacy.old_params),
                           !.ret = 0, !.returned = TRUE]
       ELSE [legacy EXCEPT !.ret = 1, !.returned = TRUE]
  /\ UNCHANGED <<editor, pixelpipe, opencl, database>>

LegacyNext == LegacyParams

SpecLegacy == LegacyInit /\ [][LegacyNext]_vars

\* ================================================================= database

\* strings are sequences of path elements, so that "%s/%s" is concatenation
\* and name[0] is the first element; a NULL string is Unset
Unset == <<>>
HomeDir == <<"/", "home">>       \* getenv("HOME")
DataDir == <<"/", "share">>      \* dt_loc_get_datadir
ConfigDir == <<"/", "config">>   \* dt_loc_get_user_config_dir
LibraryDb == <<"library.db">>

\* what dt_conf_get_string("database") may return: nothing, the default name,
\* another relative name, an absolute path
ConfNames == {Unset, LibraryDb, <<".darktabledb">>, <<"/", "srv", "photos.db">>}
\* the argument of dt_database_init: NULL or the path given on the command line
Alternatives == {Unset, <<"/", "tmp", "other.db">>}

\* dbname[0] != '/'
IsRelative(name) == name[1] # "/"

\* the paths the functions may touch
Paths ==
  {HomeDir \o n : n \in {m \in ConfNames : m # Unset /\ IsRelative(m)}}
    \cup {ConfigDir \o n : n \in {m \in ConfNames : m # Unset /\ IsRelative(m)}}
    \cup {DataDir \o LibraryDb}
    \cup {m \in ConfNames : m # Unset /\ ~IsRelative(m)}
    \cup (Alternatives \ {Unset})

\* g_file_test(path, G_FILE_TEST_EXISTS) on the files f
FileExists(f, path) == f[path] # "none"

\* the test without the look at the destination
MayMigrate_AnyDestination(f, conf_db) ==
  /\ conf_db # Unset /\ IsRelative(conf_db)
  /\ FileExists(f, HomeDir \o conf_db)

\* if (conf_db && conf_db[0] != '/'), if (g_file_test (dbfilename, ...EXISTS)),
\* if(!g_file_test (destdbname, ...EXISTS))
MayMigrate(f, conf_db) ==
  /\ conf_db # Unset /\ IsRelative(conf_db)
  /\ FileExists(f, HomeDir \o conf_db)
  /\ ~FileExists(f, DataDir \o LibraryDb)

\* rename(old, new), whose return value is not looked at: on success new
\* holds what old held and old is gone, on failure nothing has changed
Rename(f, old, new, ok) ==
  IF ok THEN [f EXCEPT ![new] = f[old], ![old] = "none"] ELSE f

\* dt_database_init(alternative) has been called
DatabaseInit ==
  /\ EditorAtRest /\ NoProcess /\ NoProcessCl /\ NoLegacyParams
  /\ \E conf \in ConfNames, alt \in Alternatives, home, dest, cfg \in BOOLEAN :
       database =
         [pc |-> "call",
          alternative |-> alt,
          conf |-> conf,
          fs |-> [p \in Paths |->
                    IF home /\ conf # Unset /\ p = HomeDir \o conf THEN "old library"
                    ELSE IF dest /\ p = DataDir \o LibraryDb THEN "xdg library"
                    ELSE IF cfg /\ p = ConfigDir \o LibraryDb THEN "library"
                    ELSE "none"],
          db |-> Unset, ret |-> "none", opened |-> FALSE, closes |-> 0,
          got |-> "never", reported |-> "unasked"]

\* _database_migrate_to_xdg_structure(), the first call of dt_database_init
DatabaseMigrate(rename_ok) ==
  LET f == database.fs
      conf_db == database.conf
  IN
  /\ database.pc = "call"
  /\ database' =
       IF MayMigrate(f, conf_db)
       THEN [database EXCEPT
               !.fs = Rename(f, HomeDir \o conf_db, DataDir \o LibraryDb, rename_ok),
               !.conf = LibraryDb,
               !.pc = "migrated"]
       ELSE [database EXCEPT !.pc = "migrated"]
  /\ UNCHANGED <<editor, pixelpipe, opencl, legacy>>

\* the file name dt_database_init opens
DbFilename(alternative, dbname) ==
  IF alternative = Unset
  THEN IF dbname = Unset THEN ConfigDir \o LibraryDb
       ELSE IF IsRelative(dbname) THEN ConfigDir \o dbname
       ELSE dbname
  ELSE alternative

\* the sqlite result code the lock test compares with
SQLITE_ERROR == 1

\* sqlite3_exec(db->handle, "delete from lock", ...) > SQLITE_ERROR
IsLocked(lock_rc) == lock_rc > SQLITE_ERROR

\* the rest of dt_database_init: the file name, the object, sqlite3_open and
\* the test of the lock; open_ok and lock_rc are what sqlite answers (0 for
\* success, 1 for an error such as a missing table, 5 for a busy database)
DatabaseOpen(open_ok, lock_rc) ==
  LET dbfilename == DbFilename(database.alternative, database.conf)
      db == [is_new_database |-> ~FileExists(database.fs, dbfilename),
             already_locked |-> FALSE,
             dbfilename |-> dbfilename]
  IN
  /\ database.pc = "migrated"
  /\ database' =
       IF ~open_ok
       THEN [database EXCEPT !.opened = FALSE, !.closes = @ + 1, !.db = Unset,
                             !.ret = "NULL", !.pc = "returned"]
       ELSE IF IsLocked(lock_rc)
       THEN [database EXCEPT !.opened = TRUE, !.closes = @ + 1,
                             !.db = [db EXCEPT !.already_locked = TRUE],
                             !.ret = "db", !.pc = "returned"]
       ELSE [database EXCEPT !.opened = TRUE, !.db = db,
                             !.fs[dbfilename] = IF @ = "none" THEN "created" ELSE @,
                             !.ret = "db", !.pc = "returned"]
  /\ UNCHANGED <<editor, pixelpipe, opencl, legacy>>

\* dt_database_get(db): return db->handle
DatabaseGet ==
  /\ database.pc = "returned" /\ database.ret = "db"
  /\ database' = [database EXCEPT !.got = IF database.closes > 0 THEN "closed" ELSE "open"]
  /\ UNCHANGED <<editor, pixelpipe, opencl, legacy>>

\* dt_database_get_already_locked(db)
DatabaseGetAlreadyLocked ==
  /\ database.pc = "returned" /\ database.ret = "db"
  /\ database' = [database EXCEPT
       !.reported = IF database.db.already_locked THEN "locked" ELSE "free"]
  /\ UNCHANGED <<editor, pixelpipe, opencl, legacy>>

\* dt_database_destroy(db): sqlite3_close(db->handle); g_free(db)
DatabaseDestroy ==
  /\ database.pc = "returned" /\ database.ret = "db"
  /\ database' = [database EXCEPT !.closes = @ + 1, !.db = Unset, !.pc = "destroyed"]
  /\ UNCHANGED <<editor, pixelpipe, opencl, legacy>>

DatabaseNext ==
  \/ \E rename_ok \in BOOLEAN : DatabaseMigrate(rename_ok)
  \/ \E open_ok \in BOOLEAN, lock_rc \in {0, SQLITE_ERROR, 5} :
       DatabaseOpen(open_ok, lock_rc)
  \/ DatabaseGet
  \/ DatabaseGetAlreadyLocked
  \/ DatabaseDestroy

SpecDatabase == DatabaseInit /\ [][DatabaseNext]_vars

\* =================================================================== claims

\* the active channel's nodes, count and the pointer position of an event
ActiveCurve == tonecurve[channel]
ActiveNodes == tonecurve_nodes[channel]
Locked == tonecurve_autoscale_ab # 0 /\ channel # ch_L
Held == GDK_BUTTON1_MASK

\* ------------------------------------------------------------------------ C1
\* C1: in every reachable state, for every channel, the x of the control
\* points is strictly increasing by index over the channel's node count.
C1_Ordered ==
  \A ch \in Channels :
    \A k \in 0 .. (tonecurve_nodes[ch] - 2) :
      tonecurve[ch][k].x < tonecurve[ch][k + 1].x

\* ------------------------------------------------------------------------ C2
\* C2: in every reachable state the node count of each of the three channels
\* is at least 2 and at most 20.
C2_NodeCount ==
  \A ch \in Channels : tonecurve_nodes[ch] >= 2 /\ tonecurve_nodes[ch] <= 20

\* the b curve, one below capacity at first, has been filled by an insert and
\* the inserted node is being dragged
C2_Witness ==
  /\ channel = ch_b
  /\ tonecurve_nodes[ch_b] = 20
  /\ selected >= 0
  /\ history = 1

\* ------------------------------------------------------------------------ C3
\* the drag of node k to mx reaches or crosses a neighbour of k
C3_Crosses(mx) ==
  \/ (selected > 0 /\ ActiveCurve[selected - 1].x >= mx)
  \/ (selected < ActiveNodes - 1 /\ ActiveCurve[selected + 1].x <= mx)

\* node k is gone, the others keep coordinates and order, count is one less,
\* the editor is Suppressed
C3_Removed ==
  /\ tonecurve_nodes' = [tonecurve_nodes EXCEPT ![channel] = ActiveNodes - 1]
  /\ \A k \in 0 .. (ActiveNodes - 2) :
       tonecurve'[channel][k] = IF k < selected THEN ActiveCurve[k] ELSE ActiveCurve[k + 1]
  /\ \A ch \in Channels \ {channel} : tonecurve'[ch] = tonecurve[ch]
  /\ selected' = -2

\* C3 as stated: on a pointer move with the primary button held and a node k
\* of the active channel selected, if mx reaches or crosses a neighbour's x and
\* the channel has more than 2 nodes, node k is removed, the count drops by 1,
\* the other nodes keep coordinates and order, and the editor is Suppressed.
C3_Original ==
  [][\A e \in EventPoints :
       ( /\ MotionNotify(e[1], e[2], Held)
         /\ selected >= 0 /\ selected < ActiveNodes
         /\ ActiveNodes > 2
         /\ C3_Crosses(Mx(e[1])) )
       => C3_Removed]_vars

\* C3 amended: the same, provided the active channel is the luminance channel
\* or autoscale is off.
C3_DragDelete ==
  [][\A e \in EventPoints :
       ( /\ MotionNotify(e[1], e[2], Held)
         /\ ~Locked
         /\ selected >= 0 /\ selected < ActiveNodes
         /\ ActiveNodes > 2
         /\ C3_Crosses(Mx(e[1])) )
       => C3_Removed]_vars

\* node 1 of the three-node a curve was dragged onto node 2 and is gone
C3_Witness ==
  /\ channel = ch_a
  /\ tonecurve_nodes[ch_a] = 2
  /\ tonecurve[ch_a][0] = Node(0, 0)
  /\ tonecurve[ch_a][1] = Node(One, One)
  /\ selected = -2
  /\ mouse_x = Width

\* ------------------------------------------------------------------------ C4
\* the first index whose x is greater than mx, or the count if there is none
C4_SortedPosition(mx) ==
  IF \E k \in 0 .. (ActiveNodes - 1) : ActiveCurve[k].x > mx
  THEN CHOOSE k \in 0 .. (ActiveNodes - 1) :
         /\ ActiveCurve[k].x > mx
         /\ \A j \in 0 .. (k - 1) : ActiveCurve[j].x <= mx
  ELSE ActiveNodes

C4_Inserted(mx, my) ==
  LET pos == C4_SortedPosition(mx) IN
  /\ tonecurve_nodes' = [tonecurve_nodes EXCEPT ![channel] = ActiveNodes + 1]
  /\ tonecurve'[channel][pos] = Node(mx, my)
  /\ \A k \in 0 .. (ActiveNodes - 1) :
       tonecurve'[channel][IF k < pos THEN k ELSE k + 1] = ActiveCurve[k]
  /\ \A ch \in Channels \ {channel} : tonecurve'[ch] = tonecurve[ch]
  /\ selected' = pos

\* C4 as stated: on a pointer move with the primary button held, no node
\* selected (selected = -1) and fewer than 20 nodes, a node (mx, my) is
\* inserted at the sorted position, the count grows by 1, the old nodes keep
\* coordinates and order, and the new index is selected.
C4_Original ==
  [][\A e \in EventPoints :
       ( /\ MotionNotify(e[1], e[2], Held)
         /\ selected = -1
         /\ ActiveNodes < 20 )
       => C4_Inserted(Mx(e[1]), My(e[2]))]_vars

\* C4 amended: the same, provided the active channel is the luminance channel
\* or autoscale is off.
C4_DragInsert ==
  [][\A e \in EventPoints :
       ( /\ MotionNotify(e[1], e[2], Held)
         /\ ~Locked
         /\ selected = -1
         /\ ActiveNodes < 20 )
       => C4_Inserted(Mx(e[1]), My(e[2]))]_vars

\* a node was inserted between nodes 0 and 1 of the three-node a curve: four
\* nodes, the new one at index 1 and selected
C4_Witness ==
  /\ channel = ch_a
  /\ tonecurve_nodes[ch_a] = 4
  /\ tonecurve[ch_a][0] = Node(0, 0)
  /\ tonecurve[ch_a][1] = Node(477, 477)
  /\ tonecurve[ch_a][2] = Node(One \div 2, One \div 2)
  /\ tonecurve[ch_a][3] = Node(One, One)
  /\ selected = 1

\* ------------------------------------------------------------------------ C5
\* C5: once the editor is Suppressed (selected = -2), every pointer move with
\* the primary button held leaves the point lists, the node counts and the
\* selection unchanged, and only a pointer move without the primary button
\* held takes the editor out of Suppressed.
C5_Suppressed ==
  [][selected = -2 =>
       /\ \A e \in EventPoints :
            MotionNotify(e[1], e[2], Held) => UNCHANGED <<tonecurve, tonecurve_nodes, selected>>
       /\ selected' # -2 => \E e \in EventPoints : MotionNotify(e[1], e[2], 0)]_vars

\* node 1 of the a curve was deleted at the right edge, and the pointer has
\* since moved on to the middle with the editor still Suppressed and the two
\* remaining nodes in place
C5_Witness ==
  /\ channel = ch_a
  /\ tonecurve_autoscale_ab = 0
  /\ history = 1
  /\ selected = -2
  /\ tonecurve_nodes[ch_a] = 2
  /\ tonecurve[ch_a][1] = Node(One, One)
  /\ mouse_x = 477

\* ------------------------------------------------------------------------ C6
\* k is the hover result at (mx, my): -1 when no node of the active channel is
\* strictly closer than 0.04 squared, else a node within that radius that no
\* other node is closer than
C6_IsNearest(k, mx, my) ==
  IF \A j \in 0 .. (ActiveNodes - 1) : Dist(ActiveCurve[j], mx, my) >= HoverMin
  THEN k = -1
  ELSE /\ k \in 0 .. (ActiveNodes - 1)
       /\ Dist(ActiveCurve[k], mx, my) < HoverMin
       /\ \A j \in 0 .. (ActiveNodes - 1) :
            Dist(ActiveCurve[j], mx, my) >= Dist(ActiveCurve[k], mx, my)

C7_ChromaFrame ==
  [][(tonecurve_autoscale_ab # 0 /\ channel # ch_L) =>
       /\ tonecurve'[channel] = tonecurve[channel]
       /\ tonecurve_nodes'[channel] = tonecurve_nodes[channel]
       /\ tonecurve_type'[channel] = tonecurve_type[channel]]_vars

\* a node was selected on the luminance channel, the a tab was opened with
\* autoscale on, and a double-click there was turned away
C7_Witness ==
  /\ channel = ch_a
  /\ tonecurve_autoscale_ab # 0
  /\ selected >= 0
  /\ ignored = "button_press"

C9_Reset ==
  [][ButtonPress(1, GDK_2BUTTON_PRESS) =>
       IF Locked
       THEN UNCHANGED <<params, selected>>
       ELSE /\ tonecurve_nodes'[channel] = default_params.tonecurve_nodes[channel]
            /\ tonecurve_type'[channel] = default_params.tonecurve_type[channel]
            /\ \A k \in 0 .. (default_params.tonecurve_nodes[channel] - 1) :
                 tonecurve'[channel][k] = default_params.tonecurve[channel][k]
            /\ selected' = -2]_vars

\* the full a curve after the reset: three nodes, the factory spline type, the
\* factory end node in slot 2, and the old node still in slot 3 beyond the count
C9_Witness ==
  /\ channel = ch_a
  /\ tonecurve_autoscale_ab = 0
  /\ tonecurve_nodes[ch_a] = 3
  /\ tonecurve_type[ch_a] = MONOTONE_HERMITE
  /\ tonecurve[ch_a][2] = Node(One, One)
  /\ tonecurve[ch_a][3] = Node(150, 150)
  /\ selected = -2

\* ----------------------------------------------------------------------- C10
\* C10: when the active channel has 20 nodes and no node is selected, a
\* pointer move with the primary button held leaves the point lists, the node
\* counts and the selection unchanged: nothing is written, within the 20 slots
\* or beyond.
C10_Full ==
  [][\A e \in EventPoints :
       ( /\ MotionNotify(e[1], e[2], Held)
         /\ ActiveNodes = MAXNODES
         /\ selected = -1 )
       => UNCHANGED <<tonecurve, tonecurve_nodes, selected>>]_vars

\* the full a curve, untouched, after a button-held move to a place where a
\* move without the button would have selected node 10: nothing is selected
C10_Witness ==
  /\ channel = ch_a
  /\ tonecurve_autoscale_ab = 0
  /\ tonecurve_nodes[ch_a] = MAXNODES
  /\ tonecurve[ch_a][10] = Node(One \div 2, One \div 2)
  /\ selected = -1
  /\ mouse_x = 477 /\ mouse_y = 523
  /\ history = 0

\* ----------------------------------------------------------------------- C11
\* C11: in every reachable state every control point of every channel, up to
\* the channel's node count, has its x and its y within [0, 1].
C11_InRange ==
  \A ch \in Channels :
    \A k \in 0 .. (tonecurve_nodes[ch] - 1) :
      /\ tonecurve[ch][k].x >= 0 /\ tonecurve[ch][k].x <= One
      /\ tonecurve[ch][k].y >= 0 /\ tonecurve[ch][k].y <= One


\* ------------------------------------------------------------ pixel transform

\* the pixels of the region, row by row, and where pixel p starts in a buffer
Pixels == 0 .. (roi_width * roi_height - 1)
PixelBase(p) == p * colors
\* the normalised luminance of input pixel p, in LinOne-ths
NormL(p) == Trunc(buf_i[PixelBase(p)] * LinOne, 100 * Lab)
NearZero == LinOne \div 100
AutoscaleOn == piece_data.autoscale_ab # 0
\* the entry of channel ch's table for the normalised value n/den
Lookup(ch, n, den) ==
  TableAt(piece_data.table[ch], CLAMP(Trunc(n * TableMax, den), 0, TableMax))

\* C12: once the region is processed, every pixel that is not in the
\* near-zero branch of autoscale mode has as output luminance the luminance
\* table entry at clamp(trunc(L_in * 65535), 0, 65535) if L_in < xmax and the
\* extrapolation at L_in otherwise.
C12_Luminance ==
  ProcessDone =>
    \A p \in Pixels :
      (~AutoscaleOn \/ NormL(p) > NearZero) =>
        buf_o[PixelBase(p)] =
          IF NormL(p) < piece_data.xmax
          THEN Lookup(ch_L, NormL(p), LinOne)
          ELSE dt_iop_eval_exp(piece_data.unbounded_coeffs, NormL(p))

\* a processed region with a pixel below xmax and one at or beyond it, under
\* autoscale and both above the near-zero threshold
C12_Witness ==
  /\ ProcessDone /\ AutoscaleOn
  /\ \E p \in Pixels : NormL(p) > NearZero /\ NormL(p) < piece_data.xmax
  /\ \E p \in Pixels : NormL(p) >= piece_data.xmax

\* the luminance-table value at the index of the 0.01 threshold
ThresholdValue == TableAt(piece_data.table[ch_L], Trunc(NearZero * TableMax, LinOne))

\* C13: with autoscale on, once the region is processed, a pixel whose
\* normalised luminance is strictly above 0.01 has each chroma output equal to
\* in_chroma * out_L / in_L; a pixel at or below 0.01 has luminance and both
\* chroma outputs equal to the inputs times the luminance-table value at the
\* threshold index (no quotient by in_L is formed, so in_L = 0 is harmless).
C13_Autoscale ==
  (ProcessDone /\ AutoscaleOn) =>
    \A p \in Pixels :
      LET b == PixelBase(p)
      IN IF NormL(p) > NearZero
         THEN \A c \in {1, 2} : buf_o[b + c] = Trunc(buf_i[b + c] * buf_o[b], buf_i[b])
         ELSE \A c \in {0, 1, 2} : buf_o[b + c] = Trunc(buf_i[b + c] * ThresholdValue, Lab)

\* a processed region under autoscale with a pixel exactly at the threshold,
\* one at zero, a negative one and one above the threshold
C13_Witness ==
  /\ ProcessDone /\ AutoscaleOn
  /\ \E p \in Pixels : NormL(p) = NearZero
  /\ \E p \in Pixels : NormL(p) = 0
  /\ \E p \in Pixels : NormL(p) < 0 /\ buf_o[PixelBase(p)] < 0
  /\ \E p \in Pixels : NormL(p) > NearZero /\ buf_o[PixelBase(p) + 1] # buf_i[PixelBase(p) + 1]

\* C14: with autoscale off, once the region is processed, the a output of
\* every pixel is the a table's entry at clamp(trunc((a + 128) / 256 * 65535),
\* 0, 65535) and the b output the b table's entry at the same index of b: a
\* function of that chroma input and that channel's table alone.
C14_Chroma ==
  (ProcessDone /\ ~AutoscaleOn) =>
    \A p \in Pixels :
      LET b == PixelBase(p)
      IN /\ buf_o[b + 1] = Lookup(ch_a, buf_i[b + 1] + 128 * Lab, 256 * Lab)
         /\ buf_o[b + 2] = Lookup(ch_b, buf_i[b + 2] + 128 * Lab, 256 * Lab)

\* a processed region without autoscale whose a and b tables differ, with a
\* pixel whose a lies below the table, one whose b lies above it, and one whose
\* luminance is extrapolated
C14_Witness ==
  /\ ProcessDone /\ ~AutoscaleOn
  /\ piece_data.table[ch_a] # piece_data.table[ch_b]
  /\ \E p \in Pixels : buf_i[PixelBase(p) + 1] < -128 * Lab
  /\ \E p \in Pixels : buf_i[PixelBase(p) + 2] > 128 * Lab
  /\ \E p \in Pixels : NormL(p) >= piece_data.xmax
  /\ \E p \in Pixels : buf_o[PixelBase(p) + 1] # buf_i[PixelBase(p) + 1]

\* C15: once the region is processed, the fourth output channel of every
\* pixel equals its fourth input channel, whatever the autoscale flag and the
\* luminance branch.
C15_Alpha ==
  ProcessDone => \A p \in Pixels : buf_o[PixelBase(p) + 3] = buf_i[PixelBase(p) + 3]

\* a processed region whose fourth channel differs from what the output
\* buffer held before, holding a pixel of the near-zero branch, one of the
\* table branch and one of the extrapolation
C15_Witness ==
  /\ ProcessDone /\ AutoscaleOn
  /\ \E p \in Pixels : NormL(p) <= NearZero /\ buf_i[PixelBase(p) + 3] = Lab
  /\ \E p \in Pixels : NormL(p) > NearZero /\ NormL(p) < piece_data.xmax
  /\ \E p \in Pixels : NormL(p) >= piece_data.xmax /\ buf_i[PixelBase(p) + 3] = Lab \div 4

\* the output region as a function of the tables, the coefficients, the
\* autoscale flag and the input region alone
OutputOf(d, i) ==
  [l \in Locs |-> ProcessPixel(d, LoadPixel(i, PixelBase(l \div colors)))[(l % colors) + 1]]

\* C16: no step of process changes the tables, the coefficients, the autoscale
\* flag or the input region, and the output region of a finished call is
\* determined by these alone (not by what the output buffer held before, nor
\* by the order of the work), so two calls on identical inputs agree.
C16_Pure ==
  /\ [][piece_data' = piece_data /\ buf_i' = buf_i]_vars
  /\ [](ProcessDone => buf_o = OutputOf(piece_data, buf_i))

\* a finished call that left none of the values the output buffer was filled
\* with before
C16_Witness ==
  /\ ProcessDone
  /\ \A l \in Locs : omp.writes[l] # <<>>
  /\ \A l \in Locs : buf_o[l] # 0 /\ buf_o[l] # 7 * Lab
  /\ \E l \in Locs : buf_o[l] # buf_i[l]

\* C17: every location of the output is written at most once, and once the
\* loop is over every pixel has been written exactly once, all four floats by
\* the same worker; a worker reads back only output locations it wrote
\* itself; and the final output is the same function of the inputs whatever
\* the assignment of rows to workers and the order of their steps.
C17_RowParallel ==
  /\ \A l \in Locs : Len(omp.writes[l]) <= 1
  /\ \A l \in Locs : \A w \in omp.reads[l] : omp.writes[l] = <<w>>
  /\ ProcessDone =>
       /\ \A p \in Pixels : \E w \in Threads :
            \A c \in 0 .. (colors - 1) : omp.writes[PixelBase(p) + c] = <<w>>
       /\ buf_o = OutputOf(piece_data, buf_i)

\* a finished loop whose rows went to different workers, with a pixel whose
\* output luminance was read back for the chroma
C17_Witness ==
  /\ ProcessDone
  /\ \E l1, l2 \in Locs : omp.writes[l1] = <<1>> /\ omp.writes[l2] = <<2>>
  /\ \E l \in Locs : omp.reads[l] # {}

\* -------------------------------------------------------------- device kernel

\* C18: at no point of process_cl has a handle been released twice or a handle
\* been released that no transfer of this call returned (NULL and a stale stack
\* value included), and when process_cl has returned, by whichever path, every
\* handle a transfer returned has been released exactly once.
C18_Released ==
  /\ \A h \in Handles :
       /\ opencl.released[h] <= 1
       /\ opencl.released[h] > 0 => h \in opencl.acquired
  /\ ClReturned => \A h \in opencl.acquired : opencl.released[h] = 1

\* process_cl has returned after the transfer of the a table failed while the
\* L and b tables were acquired
C18_Witness ==
  /\ ClReturned
  /\ opencl.acquired = {HandleOf("dev_L"), HandleOf("dev_b")}
  /\ opencl.failed = {"dev_a"}
  /\ opencl.released[HandleOf("dev_L")] = 1 /\ opencl.released[HandleOf("dev_b")] = 1

\* C19: the kernel is enqueued only after all four transfers succeeded; a call
\* in which a transfer failed returns FALSE with no kernel dispatched, so the
\* output buffer is not written; a call returns TRUE only if all four
\* transfers and the dispatch succeeded.
C19_Failure ==
  /\ opencl.pc[1] = "enqueue" => opencl.failed = {}
  /\ opencl.dispatched => opencl.failed = {}
  /\ (ClReturned /\ opencl.failed # {}) => (opencl.ret = FALSE_ /\ ~opencl.dispatched)
  /\ opencl.ret = TRUE_ =>
       /\ opencl.acquired = 1 .. Len(Buffers)
       /\ opencl.err = CL_SUCCESS
       /\ opencl.dispatched

\* process_cl has returned FALSE after the three tables were transferred and
\* the transfer of the coefficients failed
C19_Witness ==
  /\ ClReturned
  /\ opencl.failed = {"dev_coeffs"}
  /\ opencl.ret = FALSE_
  /\ opencl.args = <<>>

\* -------------------------------------------------------- parameter migration

\* C20: a call of legacy_params with a version pair other than (1, 3) returns
\* non-zero and leaves the buffer of the new parameters and the buffer of the
\* old parameters as they were.
C20_Unsupported ==
  [][(LegacyParams /\ <<legacy.old_version, legacy.new_version>> # <<1, 3>>) =>
       /\ legacy'.ret # 0
       /\ legacy'.new_params = legacy.new_params
       /\ legacy'.old_params = legacy.old_params]_vars

\* legacy_params has returned from a call with versions (2, 3) on a new
\* buffer holding something else than the defaults
C20_Witness ==
  /\ legacy # <<>> /\ legacy.returned
  /\ legacy.old_version = 2 /\ legacy.new_version = 3
  /\ legacy.new_params.tonecurve_preset = 5
  /\ legacy.ret = 1

\* the three default chroma nodes
ChromaDefault == <<Node(0, 0), Node(One \div 2, One \div 2), Node(One, One)>>

\* C21: a call of legacy_params with versions (1, 3) returns 0, leaves the old
\* parameters as they were, and leaves in the new buffer: an L curve of 6
\* nodes that are the old x/y arrays in order, of type cubic spline; a and b
\* curves of the 3 default nodes each, of type monotone Hermite; autoscale on;
\* the old preset.  Nothing of it is taken from what the new buffer held.
C21_Migrated ==
  [][(LegacyParams /\ legacy.old_version = 1 /\ legacy.new_version = 3) =>
       LET o == legacy.old_params
           n == legacy'.new_params
       IN /\ legacy'.ret = 0
          /\ legacy'.old_params = o
          /\ n.tonecurve_nodes[ch_L] = 6
          /\ \A k \in 0 .. 5 : n.tonecurve[ch_L][k] = Node(o.tonecurve_x[k + 1], o.tonecurve_y[k + 1])
          /\ n.tonecurve_type[ch_L] = CUBIC_SPLINE
          /\ \A ch \in {ch_a, ch_b} :
               /\ n.tonecurve_nodes[ch] = 3
               /\ \A k \in 0 .. 2 : n.tonecurve[ch][k] = ChromaDefault[k + 1]
               /\ n.tonecurve_type[ch] = MONOTONE_HERMITE
          /\ n.tonecurve_autoscale_ab = 1
          /\ n.tonecurve_preset = o.tonecurve_preset]_vars

\* legacy_params has returned 0 from a call with versions (1, 3) on the
\* contrast curve of preset 2
C21_Witness ==
  /\ legacy # <<>> /\ legacy.returned
  /\ legacy.old_version = 1 /\ legacy.new_version = 3
  /\ legacy.ret = 0
  /\ legacy.old_params.tonecurve_preset = 2
  /\ legacy.new_params.tonecurve[ch_L][1] = Node(80, 40)

\* ------------------------------------------------------------- pipeline piece

\* a commit_params call has returned and no other call is in progress
Committed == pipe.pc = <<"idle", 0>> /\ pipe.commits > 0

\* the tables, the flag and the coefficients that follow from p alone
DerivedOf(p) ==
  LET table == [ch \in Channels |->
                  ScaleTable(ch, dt_draw_curve_calc_values(
                                   [type |-> p.tonecurve_type[ch], points |-> Points(p, ch)]))]
  IN [curve_nodes |-> p.tonecurve_nodes,
      curve_type |-> p.tonecurve_type,
      table |-> table,
      unbounded_coeffs |-> FitCoeffs(table[ch_L], LastX(p)),
      autoscale_ab |-> p.tonecurve_autoscale_ab]

\* C22: whenever commit_params(p) has returned, whatever was committed before,
\* each channel's curve is a live object of p's type holding exactly p's
\* points in order, and the node counts, the types, the three tables, the
\* autoscale flag and the coefficients of the piece are those that follow from
\* p alone, the coefficients being fit to the new L table at 0.7, 0.8, 0.9 and
\* 1.0 times the x of p's last L node.
C22_CommitDerived ==
  Committed =>
    /\ \A ch \in Channels :
         LET c == pipe.heap[piece_data.curve[ch]]
         IN c.live /\ c.type = pipe.p.tonecurve_type[ch] /\ c.points = Points(pipe.p, ch)
    /\ [curve_nodes |-> piece_data.curve_nodes,
        curve_type |-> piece_data.curve_type,
        table |-> piece_data.table,
        unbounded_coeffs |-> piece_data.unbounded_coeffs,
        autoscale_ab |-> piece_data.autoscale_ab] = DerivedOf(pipe.p)

\* the second commit has returned; the first kept the default curves and set
\* their points, the second, of the short L line, replaced all three curves
C22_Witness ==
  /\ pipe # <<>> /\ Committed
  /\ pipe.commits = 2
  /\ Len(pipe.heap) = 2 * ch_max
  /\ pipe.p = short_params
  /\ piece_data.unbounded_coeffs[1] = 2

IdentityCase ==
  /\ Committed
  /\ pipe.p = manual_params
  /\ pipe.px_in = <<50 * Lab, 0, 0, Lab>>

\* C25 as stated: in that case the output pixel equals the input pixel.
C25_Original == IdentityCase => pipe.px_out = pipe.px_in

\* C25: in that case the fourth channel of the output equals the input's, and
\* L, a and b of the output are within one step of the table's quantisation
\* of the input's (the entry read is the one at trunc(v * 65535), not at v).
C25_IdentityWithinStep ==
  IdentityCase =>
    /\ pipe.px_out[4] = pipe.px_in[4]
    /\ \A c \in 1 .. 3 : pipe.px_out[c] - pipe.px_in[c] \in -1 .. 1

\* the pixel has been transformed after the second commit, of the identity
\* curves, had followed a commit of the short L line
C25_Witness ==
  /\ pipe # <<>> /\ IdentityCase
  /\ pipe.commits = 2
  /\ Len(pipe.heap) = 3 * ch_max
  /\ pipe.px_out # pipe.px_in

\* ---------------------------------------------------------------------- editor

\* C26: every step of an editor handler that changes the parameter set (the
\* curves, their node counts, their types or the autoscale flag) also records
\* one history item; no step changes the parameters without it.
C26_HistoryRecorded ==
  [][params' # params => history' = history + 1]_vars

\* two history items have been recorded: a node was inserted into the L curve
\* by a drag and scale chroma was then set to manual
C26_Witness ==
  /\ history = 2
  /\ tonecurve_nodes[ch_L] = 3
  /\ tonecurve_autoscale_ab = 0
  /\ selected >= 0

\* only node k of the active channel changes, to (mx, my); the node counts,
\* the selection, the types and the autoscale flag stay
C27_OnlyNodeMoved(mx, my) ==
  /\ tonecurve' = [tonecurve EXCEPT ![channel][selected] = Node(mx, my)]
  /\ UNCHANGED <<tonecurve_nodes, tonecurve_type, tonecurve_autoscale_ab, selected>>

\* C27 as stated: a pointer move with the primary button held and a node k of
\* the active channel selected, to an mx that neither reaches nor crosses a
\* neighbour's x, sets node k of the active channel to (mx, my) and changes
\* nothing else of the parameters nor the selection.
C27_Original ==
  [][\A e \in EventPoints :
       ( /\ selected >= 0 /\ selected < ActiveNodes
         /\ ~C3_Crosses(Mx(e[1]))
         /\ MotionNotify(e[1], e[2], Held) )
       => C27_OnlyNodeMoved(Mx(e[1]), My(e[2]))]_vars

\* C27 amended: the same, provided the active channel is the luminance
\* channel or autoscale is off.
C27_DragMove ==
  [][\A e \in EventPoints :
       ( /\ ~Locked
         /\ selected >= 0 /\ selected < ActiveNodes
         /\ ~C3_Crosses(Mx(e[1]))
         /\ MotionNotify(e[1], e[2], Held) )
       => C27_OnlyNodeMoved(Mx(e[1]), My(e[2]))]_vars

\* node 1 of the three-node a curve, autoscale off, has been dragged to the
\* pointer without reaching a neighbour and is still selected
C27_Witness ==
  /\ channel = ch_a /\ tonecurve_autoscale_ab = 0
  /\ tonecurve_nodes[ch_a] = 3
  /\ selected = 1
  /\ tonecurve[ch_a][1] = Node(Mx(478), My(524))
  /\ tonecurve[ch_a][1] # Node(One \div 2, One \div 2)
  /\ history = 1

\* C28: in every reachable editor state, after tab switches, resets, deletes,
\* inserts and autoscale toggles alike, a selected index that is not negative
\* is smaller than the node count of the active channel.
C28_SelectionInRange ==
  selected >= 0 => selected < ActiveNodes

\* C29: for every input pixel, with luminance or chroma negative or above
\* full scale as well, every index at which process() reads one of the three
\* tables of 65536 entries lies in 0 .. 65535.
C29_IndexInRange ==
  \A p \in Pixels :
    \A r \in TableReads(piece_data, LoadPixel(buf_i, PixelBase(p))) :
      r[1] \in Channels /\ r[2] >= 0 /\ r[2] <= TableMax /\ r[2] < TableSize

\* a processed region without autoscale holding a pixel of negative luminance
\* read at index 0, a pixel whose b is above its range read at index 65535,
\* a pixel whose a is below its range read at index 0, and a pixel whose
\* luminance is beyond the table
C29_Witness ==
  /\ ProcessDone /\ ~AutoscaleOn
  /\ \E p \in Pixels :
       /\ NormL(p) < 0
       /\ <<ch_L, 0>> \in TableReads(piece_data, LoadPixel(buf_i, PixelBase(p)))
  /\ \E p \in Pixels :
       /\ buf_i[PixelBase(p) + 2] > 128 * Lab
       /\ <<ch_b, TableMax>> \in TableReads(piece_data, LoadPixel(buf_i, PixelBase(p)))
  /\ \E p \in Pixels :
       /\ buf_i[PixelBase(p) + 1] < -128 * Lab
       /\ <<ch_a, 0>> \in TableReads(piece_data, LoadPixel(buf_i, PixelBase(p)))
  /\ \E p \in Pixels : NormL(p) > LinOne

\* ----------------------------------------------------------------------- C30
\* the curve objects created so far, those still live, and how often the
\* object n has been destroyed
Created == DOMAIN pipe.heap
LiveCurves == {n \in Created : pipe.heap[n].live}
TimesDestroyed(n) == Cardinality({k \in DOMAIN pipe.destroyed : pipe.destroyed[k] = n})
\* between the return of init_pipe and the call of cleanup_pipe, at the
\* boundaries of the loop body of commit_params as well
PieceAlive == pipe.pc[1] \notin {"none", "cleaned"}

\* C30: over init_pipe, any number of commit_params and cleanup_pipe, each
\* channel of the piece holds exactly one live curve object from init_pipe to
\* cleanup_pipe and no other object is live; every curve object created is
\* destroyed exactly once, all of them by the end of cleanup_pipe; and no
\* curve object is used or destroyed after it was destroyed.
C30_CurveLifetime ==
  /\ pipe.stale_use = FALSE
  /\ \A n \in Created :
       TimesDestroyed(n) = (IF pipe.heap[n].live THEN 0 ELSE 1)
  /\ PieceAlive =>
       /\ \A ch \in Channels : piece_data.curve[ch] \in LiveCurves
       /\ \A c1, c2 \in Channels : c1 # c2 => piece_data.curve[c1] # piece_data.curve[c2]
       /\ LiveCurves = {piece_data.curve[ch] : ch \in Channels}
  /\ pipe.pc[1] = "none" => Created = {}
  /\ pipe.pc[1] = "cleaned" =>
       /\ LiveCurves = {}
       /\ Len(pipe.destroyed) = Len(pipe.heap)

\* a piece cleaned up after two commits that each replaced a curve object:
\* more objects were created than the three of init_pipe
C30_Witness ==
  /\ pipe.pc[1] = "cleaned"
  /\ pipe.commits = MaxCommits
  /\ Len(pipe.heap) >= ch_max + 2
  /\ pipe.px_out # <<>>

\* ----------------------------------------------------------------------- C31
\* C31: init_pipe leaves the piece fully initialized: a transform that runs
\* after init_pipe and before the first commit_params reads only members of
\* the piece that have been assigned (the tables, the autoscale flag and the
\* extrapolation coefficients).
C31_InitPipeComplete ==
  (pipe.commits = 0 /\ pipe.px_in # <<>>) => ProcessReads \subseteq pipe.written

\* ----------------------------------------------------------------------- C32
\* C32: whenever dt_database_init has returned a database object, after a
\* normal open or with the database reported as already locked, and
\* dt_database_destroy has followed, the sqlite connection has been closed
\* exactly once, and dt_database_get never hands out the connection after it
\* was closed; when the open fails, dt_database_init returns NULL.
C32_ClosedOnce ==
  /\ database.pc = "destroyed" => database.closes = 1
  /\ database.got # "closed"
  /\ (database.pc = "returned" /\ ~database.opened) => database.ret = "NULL"

\* ----------------------------------------------------------------------- C33
\* C33: the migration never overwrites a library.db that exists in the new
\* directory; the old file is renamed onto it and the "database" entry is set
\* to "library.db" only when the configured name is relative, the old file
\* exists under the home directory and nothing exists at the destination; in
\* every other case the files and the entry are as they were.
C33_MigrateGuarded ==
  [][database.pc = "call" =>
       LET f == database.fs
           c == database.conf
           dest == DataDir \o LibraryDb
           met == /\ c # Unset /\ c[1] # "/"
                  /\ f[HomeDir \o c] # "none"
                  /\ f[dest] = "none"
       IN /\ f[dest] # "none" => database'.fs[dest] = f[dest]
          /\ ~met => database'.fs = f /\ database'.conf = c
          /\ database'.fs # f =>
               /\ met
               /\ database'.fs = [f EXCEPT ![dest] = f[HomeDir \o c], ![HomeDir \o c] = "none"]
               /\ database'.conf = LibraryDb
          /\ database'.conf # c => met /\ database'.conf = LibraryDb]_vars

\* the library configured as .darktabledb under the home directory has been
\* moved to library.db in the new directory and the entry names it
C33_Witness ==
  /\ database # <<>> /\ database.pc = "migrated"
  /\ database.fs[DataDir \o LibraryDb] = "old library"
  /\ database.fs[HomeDir \o <<".darktabledb">>] = "none"
  /\ database.conf = LibraryDb

====
